---- MODULE Spec2Model ----
(***************************************************************************)
(* Lyre Hero: the tutor state machine of components/TutorInterface.tsx     *)
(* driving the pitch engine of services/audioEngine.ts.                    *)
(*                                                                         *)
(* Units.  Time is Date.now() in milliseconds.  RMS values are in units of *)
(* 1e-4, clarity / zero-crossing rate / spectral flatness in units of      *)
(* 1e-3, frequencies in units of 0.1 Hz, gain in tenths.                   *)
(***************************************************************************)
EXTENDS Integers, Sequences, FiniteSets, TLC

VARIABLES
    song,      \* props.song.notes: the sequence of target note names
    ui,        \* React state of TutorInterface (the values set by setX)
    rendered,  \* the effect dependencies as of the last committed render
    ref,       \* the useRef cells of TutorInterface
    eng,       \* the fields of the AudioEngine instance
    rafs,      \* ids of requested animation frames whose callback is checkPitch
    calls,     \* AudioEngine.start() calls suspended at an await
    now,       \* Date.now()
    feed,      \* a scripted performance: the sound at each display frame (<<>>: free)
    store,     \* the item 'lyrehero-audio-config' of localStorage
    ev,        \* what the last step did (observation only)
    obs        \* history of the run needed to state the claims (observation only)

vars == <<song, ui, rendered, ref, eng, rafs, calls, now, feed, store, ev, obs>>

(***************************************************************************)
(* Bounds of the model.                                                    *)
(***************************************************************************)
MaxSongLen == 2     \* songs have 1..MaxSongLen notes
MaxTicks   == 7     \* the clock advances at most this many steps
MaxShortTicks == 1  \* ... and this many with an impatient player
MaxCalibrationTicks == 2  \* ... and this many where calibration runs
MaxRafs    == 2     \* frame requests and suspended start() calls alive at the same time
MaxFrames == 5      \* detectPitch calls in one behaviour of the engine alone

Notes      == {"C4", "D4"}      \* the note names songs are written with
StartTimes == {1000}            \* Date.now() when the component mounts
Steps      == {100}             \* milliseconds that pass between two clock readings
HoldDurations == {100}          \* config.holdDuration values found in storage
FramePeriods == {20}            \* milliseconds between two display frames of a performance

Songs == UNION {[1..n -> Notes] : n \in 1..MaxSongLen}

(***************************************************************************)
(* services/audioEngine.ts                                                 *)
(***************************************************************************)
LYRE_MIN_FREQ == 1650
LYRE_MAX_FREQ == 11000
HISTORY_SIZE == 5
REQUIRED_CONSISTENCY == 3
NOISE_FLOOR_WINDOW == 50
SPECTRAL_FLATNESS_THRESHOLD == 300
ZcrNoiseLimit == 300
InitialNoiseFloor == 10
NoiseWarmup == 10
EngineGain == 15
EngineRmsThreshold == 20
EngineCorrelationThreshold == 300

\* NOTE_FREQUENCIES restricted to the diatonic lyre strings F3..C6, in 0.1 Hz.
LyreFreq ==
    [F3 |-> 1746, G3 |-> 1960, A3 |-> 2200, B3 |-> 2469, C4 |-> 2616,
     D4 |-> 2937, E4 |-> 3296, F4 |-> 3492, G4 |-> 3920, A4 |-> 4400,
     B4 |-> 4939, C5 |-> 5233, D5 |-> 5873, E5 |-> 6593, F5 |-> 6985,
     G5 |-> 7840, A5 |-> 8800, B5 |-> 9878, C6 |-> 10465]

\* NOTE_FREQUENCIES, its natural notes C3..D6 (the preset songs use no others).
NOTE_FREQUENCIES ==
    [C3 |-> 1308, D3 |-> 1468, E3 |-> 1648, D6 |-> 11747] @@ LyreFreq

\* LYRE_NOTES, in the order the classifier scans them.
LYRE_NOTES ==
    <<"F3", "G3", "A3", "B3", "C4", "D4", "E4", "F4", "G4", "A4",
      "B4", "C5", "D5", "E5", "F5", "G5", "A5", "B5", "C6">>

Max(a, b) == IF a >= b THEN a ELSE b
Min(a, b) == IF a <= b THEN a ELSE b

\* [...xs].sort((a, b) => a - b)
RECURSIVE SortAsc(_)
SortAsc(xs) ==
    IF xs = <<>> THEN <<>>
    ELSE LET m == CHOOSE i \in 1..Len(xs) : \A j \in 1..Len(xs) : xs[i] <= xs[j]
             rest == [k \in 1..(Len(xs) - 1) |-> IF k < m THEN xs[k] ELSE xs[k + 1]]
         IN  <<xs[m]>> \o SortAsc(rest)

\* sorted[Math.floor(sorted.length / 2)]
MedianOf(xs) == SortAsc(xs)[(Len(xs) \div 2) + 1]

PushUncapped(xs, x, cap) == Append(xs, x)

\* push then shift when longer than cap
PushCapped(xs, x, cap) ==
    LET ys == Append(xs, x) IN IF Len(ys) > cap THEN Tail(ys) ELSE ys

\* The engine right after `new AudioEngine()`.
\* (orphan: a MediaStream this engine obtained is live and this.stream no
\* longer refers to it)
NewEngine ==
    [ctx |-> "none", analyser |-> FALSE, stream |-> FALSE, orphan |-> FALSE,
     gain |-> 0,
     isListening |-> FALSE,
     rmsThreshold |-> EngineRmsThreshold,
     correlationThreshold |-> EngineCorrelationThreshold,
     noteHistory |-> <<>>, frequencyHistory |-> <<>>,
     noiseFloor |-> InitialNoiseFloor, noiseFloorSamples |-> <<>>]

EngineStopKeepsNoise(e) ==
    [e EXCEPT !.stream = FALSE, !.ctx = "none", !.analyser = FALSE,
              !.gain = 0, !.isListening = FALSE,
              !.noteHistory = <<>>, !.frequencyHistory = <<>>]

\* AudioEngine.stop()
EngineStop(e) ==
    [e EXCEPT !.stream = FALSE, !.ctx = "none", !.analyser = FALSE,
              !.gain = 0, !.isListening = FALSE,
              !.noteHistory = <<>>, !.frequencyHistory = <<>>,
              !.noiseFloorSamples = <<>>, !.noiseFloor = InitialNoiseFloor]

\* AudioEngine.setGain(value)
SetGain(e, value) == IF e.gain # 0 THEN [e EXCEPT !.gain = value] ELSE e

\* AudioEngine.updateNoiseFloor(rms)
UpdateNoiseFloorPlainMedian(e, rms) ==
    IF rms < e.noiseFloor * 3 \/ Len(e.noiseFloorSamples) < NoiseWarmup
    THEN LET ring == PushCapped(e.noiseFloorSamples, rms, NOISE_FLOOR_WINDOW)
         IN  [e EXCEPT !.noiseFloorSamples = ring, !.noiseFloor = MedianOf(ring)]
    ELSE e
UpdateNoiseFloor(e, rms) ==
    IF rms < e.noiseFloor * 3 \/ Len(e.noiseFloorSamples) < NoiseWarmup
    THEN LET ring == PushCapped(e.noiseFloorSamples, rms, NOISE_FLOOR_WINDOW)
             med  == MedianOf(ring)
         IN  [e EXCEPT !.noiseFloorSamples = ring,
                       !.noiseFloor = IF med = 0 THEN InitialNoiseFloor ELSE med]
    ELSE e

GetLatestNote(h) == IF h = <<>> THEN "" ELSE h[Len(h)]

\* AudioEngine.getMostConsistentNote()
CountOf(h, n) == Cardinality({i \in 1..Len(h) : h[i] = n})
GetMostConsistentNote(h) ==
    IF Len(h) < REQUIRED_CONSISTENCY THEN ""
    ELSE LET names == {h[i] : i \in 1..Len(h)} \ {""}
             \* Object.entries keeps first-insertion order; the first name
             \* with the strictly highest count wins
             first(n) == CHOOSE i \in 1..Len(h) : h[i] = n /\ \A j \in 1..(i - 1) : h[j] # n
             best == {n \in names : \A m \in names :
                         \/ CountOf(h, n) > CountOf(h, m)
                         \/ (CountOf(h, n) = CountOf(h, m) /\ first(n) <= first(m))}
         IN  IF names = {} THEN ""
             ELSE LET b == CHOOSE n \in best : TRUE
                  IN  IF CountOf(h, b) >= REQUIRED_CONSISTENCY THEN b ELSE ""

\* AudioEngine.getMedianFrequency()
GetMedianFrequency(fh) == IF Len(fh) = 0 THEN 0 ELSE MedianOf(fh)

HertzCloser(f, g, h) ==
    Max(f, g) - Min(f, g) < Max(f, h) - Min(f, h)

\* |1200 * log2(f / g)| < |1200 * log2(f / h)|, by comparing the frequency ratios
CentsCloser(f, g, h) ==
    Max(f, g) * Min(f, h) < Max(f, h) * Min(f, g)

\* |1200 * log2(f / g)| <= 50, i.e. the ratio is at most 2^(1/24) = 1.02930...
WithinTolerance(f, g) == Max(f, g) * 100000 <= Min(f, g) * 102930

\* the loop of frequencyToLyreNote from note k on: `best` is the index of
\* bestNote so far (0: none yet, minCents = Infinity)
RECURSIVE NearestFrom(_, _, _)
NearestFrom(f, k, best) ==
    IF k > Len(LYRE_NOTES) THEN best
    ELSE IF best = 0 \/ CentsCloser(f, LyreFreq[LYRE_NOTES[k]], LyreFreq[LYRE_NOTES[best]])
    THEN NearestFrom(f, k + 1, k)
    ELSE NearestFrom(f, k + 1, best)

\* the nearest name of the whole note table (here: its entry C#4 too)
FrequencyToTableNote(f) ==
    IF f < LYRE_MIN_FREQ \/ f > LYRE_MAX_FREQ THEN ""
    ELSE IF WithinTolerance(f, 2772) THEN "C#4"
    ELSE LET best == NearestFrom(f, 1, 0)
         IN  IF WithinTolerance(f, LyreFreq[LYRE_NOTES[best]]) THEN LYRE_NOTES[best] ELSE ""

\* AudioEngine.frequencyToLyreNote(frequency)
FrequencyToLyreNote(f) ==
    IF f < LYRE_MIN_FREQ \/ f > LYRE_MAX_FREQ THEN ""
    ELSE LET best == NearestFrom(f, 1, 0)
         IN  IF WithinTolerance(f, LyreFreq[LYRE_NOTES[best]]) THEN LYRE_NOTES[best] ELSE ""

\* One analysis window as the engine's feature extractors see it: the RMS of
\* the time window, the NSDF estimate (frequency, clarity), the zero-crossing
\* rate, the spectral flatness and the harmonic-presence flag.
NoResult == [ok |-> FALSE, note |-> "", frequency |-> 0, clarity |-> 0, volume |-> 0]

\* the engine has its graph and is capturing (the buffer comes and goes with
\* the analyser)
ReadyAlways(e) == TRUE
Ready(e) == e.analyser /\ e.isListening /\ e.ctx # "none"

\* rms > Math.max(this.rmsThreshold, this.noiseFloor * 2)
LoudEnoughIgnoringFloor(e, rms) == rms > e.rmsThreshold
LoudEnough(e, rms) == rms > Max(e.rmsThreshold, e.noiseFloor * 2)

\* AudioEngine.detectPitch(): the engine after the call and the value returned
DetectPitch(e, in) ==
    IF ~Ready(e)
    THEN [eng |-> e, result |-> NoResult]
    ELSE LET e1 == UpdateNoiseFloor(e, in.rms)
             isLikelyNoise == in.zcr > ZcrNoiseLimit
             isTonalSound == in.flatness < SPECTRAL_FLATNESS_THRESHOLD
             isValidLyreFrequency ==
                 in.frequency >= LYRE_MIN_FREQ /\ in.frequency <= LYRE_MAX_FREQ
             rawNote ==
                 IF /\ LoudEnough(e1, in.rms)
                    /\ in.clarity > e1.correlationThreshold
                    /\ ~isLikelyNoise
                    /\ isValidLyreFrequency
                    /\ (isTonalSound \/ in.harmonics)
                 THEN FrequencyToLyreNote(in.frequency)
                 ELSE ""
             nh == PushCapped(e1.noteHistory, rawNote, HISTORY_SIZE)
             fh == PushCapped(e1.frequencyHistory, in.frequency, HISTORY_SIZE)
             e2 == [e1 EXCEPT !.noteHistory = nh, !.frequencyHistory = fh]
         IN  [eng |-> e2,
              result |-> [ok |-> TRUE,
                          note |-> GetMostConsistentNote(nh),
                          frequency |-> GetMedianFrequency(fh),
                          clarity |-> in.clarity,
                          volume |-> in.rms]]

(***************************************************************************)
(* The sound at the microphone.  The tutor specification lets the sound    *)
(* change between any two frames the tutor polls: the frames in which the  *)
(* smoother is still settling on the new sound are skipped, so that the    *)
(* history the engine holds when a frame is polled is the settled history  *)
(* of the sound heard (silence "", or a plucked string).  The room noise   *)
(* has filled the noise ring with RMS 1e-4.                                *)
(***************************************************************************)
Sounds == {""} \cup Notes

\* the analysis window of a sound: a rustle too soft to pass the RMS gate and
\* too loud to enter the noise ring, or a clearly plucked string
WindowOf(sound) ==
    IF sound = ""
    THEN [rms |-> 4, clarity |-> 0, zcr |-> 0, flatness |-> 1000,
          harmonics |-> FALSE, frequency |-> 0]
    ELSE [rms |-> 500, clarity |-> 900, zcr |-> 20, flatness |-> 100,
          harmonics |-> TRUE, frequency |-> NOTE_FREQUENCIES[sound]]

\* the raw note of a frame that hears the sound clearly
RawNoteOf(sound) ==
    IF sound = "" THEN "" ELSE FrequencyToLyreNote(WindowOf(sound).frequency)

\* the engine once its smoother has settled on the sound
Settled(e, sound) ==
    IF Ready(e)
    THEN LET raw == RawNoteOf(sound)
         IN  [e EXCEPT !.noteHistory = [i \in 1..HISTORY_SIZE |-> raw],
                       !.frequencyHistory = [i \in 1..HISTORY_SIZE |-> WindowOf(sound).frequency],
                       !.noiseFloorSamples = [i \in 1..NoiseWarmup |-> 1],
                       !.noiseFloor = 1]
    ELSE e

(***************************************************************************)
(* components/TutorInterface.tsx                                           *)
(*                                                                         *)
(* A handler is an operator from the component's world s (React state,     *)
(* refs, engine, requested frames, suspended start() calls) to the world   *)
(* after it has run.  s.log collects what the handler did (the branches    *)
(* taken and the name of the note a frame detected), for the observation   *)
(* variables only.                                                         *)
(***************************************************************************)
DebounceMs == 500
DefaultRmsThreshold == 5
DefaultCorrelationThreshold == 10
DefaultGain == 15

\* getDefaultConfig(), with the hold duration read back from storage
LoadedConfig(hold) ==
    [rmsThreshold |-> DefaultRmsThreshold,
     correlationThreshold |-> DefaultCorrelationThreshold,
     holdDuration |-> hold,
     gain |-> DefaultGain]

DefaultHoldDuration == 100
GetDefaultConfig == LoadedConfig(DefaultHoldDuration)

\* The item of localStorage is a text or absent.  kind is "absent" when
\* getItem returns null (or the empty text), "text" when JSON.parse rejects
\* the text, "value" when the text is a JSON value with no members (a number,
\* null, an empty object) and "object" when it is a JSON object, whose members
\* are listed in the order of the text.
Member(k, v) == [key |-> k, value |-> v]
Item(kind, members) == [kind |-> kind, members |-> members]

ConfigFields == <<"rmsThreshold", "correlationThreshold", "holdDuration", "gain">>

\* JSON.stringify(config): the members in the order of the object's keys
Stringify(c) ==
    Item("object", [i \in DOMAIN ConfigFields |->
                        Member(ConfigFields[i], c[ConfigFields[i]])])

\* JSON.parse(saved): whether the parsed object has property k, and its value
\* (the last member named k wins)
HasProperty(item, k) == \E i \in DOMAIN item.members : item.members[i].key = k
Property(item, k) ==
    LET last == CHOOSE i \in DOMAIN item.members :
                    /\ item.members[i].key = k
                    /\ \A j \in DOMAIN item.members : j > i => item.members[j].key # k
    IN  item.members[last].value

\* { ...getDefaultConfig(), ...parsed }, one field of it
Spread(item, k) ==
    IF HasProperty(item, k) THEN Property(item, k) ELSE GetDefaultConfig[k]

\* loadConfig(); the properties of the stored object other than the four
\* fields are carried along by the program and left out here
LoadConfigIgnoresStore(item) == GetDefaultConfig
LoadConfig(item) ==
    IF item.kind = "object"
    THEN [rmsThreshold |-> Spread(item, "rmsThreshold"),
          correlationThreshold |-> Spread(item, "correlationThreshold"),
          holdDuration |-> Spread(item, "holdDuration"),
          gain |-> Spread(item, "gain")]
    ELSE GetDefaultConfig

\* the dependencies of the four ref-sync effects
Deps(u) ==
    [currentIndex |-> u.currentIndex, isListening |-> u.isListening,
     isCalibrating |-> u.isCalibrating, config |-> u.config]

Tag(s, t) == [s EXCEPT !.log = @ \cup {t}]

\* AudioEngine.stop() as seen from the component: closing the context also
\* settles the resume() promises that suspended start() calls wait on
StopEngine(s) ==
    [s EXCEPT !.eng = EngineStop(@),
              !.calls = [i \in DOMAIN @ |->
                           IF @[i].pc = "resume" THEN [@[i] EXCEPT !.closed = TRUE]
                           ELSE @[i]]]

\* requestRef.current = requestAnimationFrame(checkPitch)
RequestAnimationFrame(s) ==
    LET free == (1..(MaxRafs + 1)) \ (s.rafs \cup {s.ref.requestRef})
        id   == CHOOSE i \in free : \A j \in free : i <= j
    IN  [s EXCEPT !.rafs = @ \cup {id}, !.ref.requestRef = id]

StopListeningKeepsEngine(s) ==
    LET s2 == IF s.ref.requestRef # 0
              THEN [s EXCEPT !.rafs = @ \ {s.ref.requestRef}]
              ELSE s
    IN  Tag([s2 EXCEPT !.ui.isListening = FALSE,
                       !.ui.detectedNote = "...",
                       !.ui.noteProgress = 0,
                       !.ref.holdStartTime = 0,
                       !.ui.currentRms = 0,
                       !.ui.currentClarity = 0,
                       !.ui.currentFreq = 0], "stop")

StopListeningClearsSilence(s) ==
    LET s1 == StopEngine(s)
        s2 == IF s1.ref.requestRef # 0
              THEN [s1 EXCEPT !.rafs = @ \ {s1.ref.requestRef}]
              ELSE s1
    IN  Tag([s2 EXCEPT !.ui.isListening = FALSE,
                       !.ui.detectedNote = "...",
                       !.ui.noteProgress = 0,
                       !.ref.holdStartTime = 0,
                       !.ref.requireSilence = FALSE,
                       !.ui.currentRms = 0,
                       !.ui.currentClarity = 0,
                       !.ui.currentFreq = 0], "stop")

\* stopListening
StopListening(s) ==
    LET s1 == StopEngine(s)
        s2 == IF s1.ref.requestRef # 0
              THEN [s1 EXCEPT !.rafs = @ \ {s1.ref.requestRef}]
              ELSE s1
    IN  Tag([s2 EXCEPT !.ui.isListening = FALSE,
                       !.ui.detectedNote = "...",
                       !.ui.noteProgress = 0,
                       !.ref.holdStartTime = 0,
                       !.ui.currentRms = 0,
                       !.ui.currentClarity = 0,
                       !.ui.currentFreq = 0], "stop")

\* now - lastNoteTimeRef.current < 500
DebouncedNever(s, t) == FALSE
Debounced(s, t) == t - s.ref.lastNoteTime < DebounceMs

\* the next note exists and is the note just completed
NextIsSameNever(idx) == FALSE
NextIsSameOrLast(idx) == idx + 1 >= Len(song) \/ song[idx + 2] = song[idx + 1]
NextIsSame(idx) ==
    LET nextIndex == idx + 1
    IN  nextIndex < Len(song) /\ song[nextIndex + 1] = song[idx + 1]

\* currentIndexRef.current < song.notes.length - 1
HasNextOffByOne(idx) == idx < Len(song)
HasNext(idx) == idx < Len(song) - 1

HandleCorrectNoteSkips(s, t) ==
    IF Debounced(s, t) THEN Tag(s, "rejected")
    ELSE LET idx == s.ref.currentIndex
             completedNote == song[idx + 1]
             s1 == [s EXCEPT !.ref.lastNoteTime = t,
                             !.ui.noteProgress = 0,
                             !.ref.holdStartTime = 0,
                             !.ref.lastCompletedNote = completedNote,
                             !.ref.requireSilence = NextIsSame(idx)]
         IN  IF HasNext(idx)
             THEN Tag([s1 EXCEPT !.ui.currentIndex = @ + 2], "advanced")
             ELSE Tag(StopListening([s1 EXCEPT !.ui.isFinished = TRUE]), "finished")

\* handleCorrectNote, called at Date.now() = t
HandleCorrectNote(s, t) ==
    IF Debounced(s, t) THEN Tag(s, "rejected")
    ELSE LET idx == s.ref.currentIndex
             completedNote == song[idx + 1]
             s1 == [s EXCEPT !.ref.lastNoteTime = t,
                             !.ui.noteProgress = 0,
                             !.ref.holdStartTime = 0,
                             !.ref.lastCompletedNote = completedNote,
                             !.ref.requireSilence = NextIsSame(idx)]
         IN  IF HasNext(idx)
             THEN Tag([s1 EXCEPT !.ui.currentIndex = @ + 1], "advanced")
             ELSE Tag(StopListening([s1 EXCEPT !.ui.isFinished = TRUE]), "finished")

\* Math.min(elapsed / holdDuration, 1), in percent
Progress(elapsed, holdDuration) ==
    IF holdDuration <= 0 THEN 100 ELSE Min((elapsed * 100) \div holdDuration, 100)

\* elapsed >= holdDuration
HoldCompleteStrict(elapsed, holdDuration) == elapsed > holdDuration
HoldComplete(elapsed, holdDuration) == elapsed >= holdDuration

OnResultKeepsSilence(s, t, result) ==
    LET idx == s.ref.currentIndex
        hasTarget == idx + 1 \in DOMAIN song
        holdDuration == s.ref.config.holdDuration
        s1 == [s EXCEPT !.ui.currentRms = result.volume,
                        !.ui.currentClarity = result.clarity,
                        !.ui.currentFreq = result.frequency]
    IN  IF result.note # ""
        THEN LET s2 == Tag([s1 EXCEPT !.ui.detectedNote = result.note], result.note)
             IN  IF ~s2.ref.isCalibrating /\ hasTarget /\ result.note = song[idx + 1]
                 THEN IF s2.ref.requireSilence
                      THEN Tag([s2 EXCEPT !.ref.holdStartTime = 0,
                                          !.ui.noteProgress = 0], "waiting")
                      ELSE LET start == IF s2.ref.holdStartTime = 0 THEN t
                                        ELSE s2.ref.holdStartTime
                               elapsed == t - start
                               s3 == [s2 EXCEPT !.ref.holdStartTime = start,
                                                !.ui.noteProgress =
                                                    Progress(elapsed, holdDuration)]
                           IN  IF HoldComplete(elapsed, holdDuration)
                               THEN HandleCorrectNote(Tag(s3, "held"), t)
                               ELSE Tag(s3, "holding")
                 ELSE Tag([s2 EXCEPT !.ref.holdStartTime = 0,
                                     !.ui.noteProgress = 0], "other")
        ELSE Tag([s1 EXCEPT !.ui.detectedNote = "...",
                            !.ref.holdStartTime = 0,
                            !.ui.noteProgress = 0], "empty")

\* the body of `if (result) { ... }` in checkPitch
OnResult(s, t, result) ==
    LET idx == s.ref.currentIndex
        hasTarget == idx + 1 \in DOMAIN song
        holdDuration == s.ref.config.holdDuration
        s1 == [s EXCEPT !.ui.currentRms = result.volume,
                        !.ui.currentClarity = result.clarity,
                        !.ui.currentFreq = result.frequency]
    IN  IF result.note # ""
        THEN LET s2 == Tag([s1 EXCEPT !.ui.detectedNote = result.note], result.note)
             IN  IF ~s2.ref.isCalibrating /\ hasTarget /\ result.note = song[idx + 1]
                 THEN IF s2.ref.requireSilence
                      THEN Tag([s2 EXCEPT !.ref.holdStartTime = 0,
                                          !.ui.noteProgress = 0], "waiting")
                      ELSE LET start == IF s2.ref.holdStartTime = 0 THEN t
                                        ELSE s2.ref.holdStartTime
                               elapsed == t - start
                               s3 == [s2 EXCEPT !.ref.holdStartTime = start,
                                                !.ui.noteProgress =
                                                    Progress(elapsed, holdDuration)]
                           IN  IF HoldComplete(elapsed, holdDuration)
                               THEN HandleCorrectNote(Tag(s3, "held"), t)
                               ELSE Tag(s3, "holding")
                 ELSE Tag([s2 EXCEPT !.ref.holdStartTime = 0,
                                     !.ui.noteProgress = 0], "other")
        ELSE Tag([s1 EXCEPT !.ref.requireSilence = FALSE,
                            !.ui.detectedNote = "...",
                            !.ref.holdStartTime = 0,
                            !.ui.noteProgress = 0], "empty")

\* checkPitch, run at Date.now() = t while `sound` is at the microphone
\* (audioEngineRef.current is set on mount and never cleared)
CheckPitch(s, t, sound) ==
    IF ~s.ref.isListening
    THEN Tag(Tag([s EXCEPT !.ref.requestRef = 0], "checkPitch"), "idle")
    ELSE LET d  == DetectPitch(Settled(s.eng, sound), WindowOf(sound))
             s1 == Tag([s EXCEPT !.eng = d.eng], "checkPitch")
             s2 == IF d.result.ok THEN OnResult(s1, t, d.result)
                   ELSE Tag(s1, "null")
         IN  RequestAnimationFrame(s2)

\* The committed re-render: the effects whose dependencies changed run
ConfigEffect(s) ==
    LET s1 == [s EXCEPT !.ref.config = s.ui.config,
                        !.store = Stringify(s.ui.config)]
    IN  IF ~s.ui.isCalibrating
        THEN [s1 EXCEPT !.eng = SetGain([@ EXCEPT
                                  !.rmsThreshold = s.ui.config.rmsThreshold,
                                  !.correlationThreshold = s.ui.config.correlationThreshold],
                                  s.ui.config.gain)]
        ELSE s1

RenderKeepsCalibratingRef(s) ==
    LET u  == s.ui
        r  == s.rendered
        s1 == IF u.currentIndex # r.currentIndex
              THEN [s EXCEPT !.ref.currentIndex = u.currentIndex] ELSE s
        s2 == IF u.isListening # r.isListening
              THEN [s1 EXCEPT !.ref.isListening = u.isListening] ELSE s1
        s4 == IF u.config # r.config \/ u.isCalibrating # r.isCalibrating
              THEN ConfigEffect(s2) ELSE s2
    IN  [s4 EXCEPT !.rendered = Deps(u)]

Render(s) ==
    LET u  == s.ui
        r  == s.rendered
        s1 == IF u.currentIndex # r.currentIndex
              THEN [s EXCEPT !.ref.currentIndex = u.currentIndex] ELSE s
        s2 == IF u.isListening # r.isListening
              THEN [s1 EXCEPT !.ref.isListening = u.isListening] ELSE s1
        s3 == IF u.isCalibrating # r.isCalibrating
              THEN [s2 EXCEPT !.ref.isCalibrating = u.isCalibrating] ELSE s2
        s4 == IF u.config # r.config \/ u.isCalibrating # r.isCalibrating
              THEN ConfigEffect(s3) ELSE s3
    IN  [s4 EXCEPT !.rendered = Deps(u)]

\* AudioEngine.start(), lines 63-98: the graph is built and the engine is ready
EngineStartFinish(e) ==
    [e EXCEPT !.analyser = TRUE, !.gain = EngineGain, !.isListening = TRUE]

\* AudioEngine.start() up to its first await: either it returns at once (the
\* context is running) or it creates the context if there is none and waits
\* for getUserMedia.  `fresh` is the state the browser gives a new context:
\* "running" when the page may play audio already, "suspended" otherwise.
BeginStart(s, who, fresh) ==
    IF s.eng.ctx = "running" THEN s
    ELSE [s EXCEPT !.eng.ctx = IF @ = "none" THEN fresh ELSE @,
                   !.calls = Append(@, [who |-> who, pc |-> "gum", closed |-> FALSE])]

PermissiveRms == 1
PermissiveCorrelation == 5

\* the caller's code after `await audioEngineRef.current.start()` returned
Started(s, who, t, sound) ==
    LET s1 == [s EXCEPT !.ref.isListening = TRUE, !.ui.isListening = TRUE]
        s2 == CheckPitch(Tag(s1, "started"), t, sound)
    IN  IF who = "note"
        THEN [s2 EXCEPT !.eng.rmsThreshold = PermissiveRms,
                        !.eng.correlationThreshold = PermissiveCorrelation]
        ELSE s2

\* the caller's catch block
StartFailed(s, who) ==
    IF who = "listen"
    THEN Tag([s EXCEPT !.ui.errorMsg = "Could not access microphone",
                       !.ui.isListening = FALSE,
                       !.ref.isListening = FALSE], "failed")
    ELSE Tag([s EXCEPT !.ui.errorMsg = "Cannot start microphone for calibration",
                       !.ui.isCalibrating = FALSE,
                       !.ui.calibrationPhase = "idle",
                       !.ref.isListening = FALSE], "failed")

\* a handler that awaits start(): its synchronous part has run (s0 is the world
\* before start() was called, s1 after); the click's re-render is committed
\* before the code after the await can run
AwaitStart(s0, s1, who, t, sound) ==
    IF s0.eng.ctx = "running" THEN Started(Render(s1), who, t, sound) ELSE Render(s1)

\* startListening
StartListening(s, fresh, t, sound) ==
    LET s1 == [s EXCEPT !.ui.errorMsg = ""]
    IN  AwaitStart(s1, BeginStart(s1, "listen", fresh), "listen", t, sound)

HandleRestartKeepsDebounce(s, fresh, t, sound) ==
    StartListening(Tag([s EXCEPT !.ui.currentIndex = 0,
                                 !.ui.isFinished = FALSE,
                                 !.ui.errorMsg = "",
                                 !.ui.noteProgress = 0,
                                 !.ref.holdStartTime = 0,
                                 !.ref.lastCompletedNote = "null",
                                 !.ref.requireSilence = FALSE], "restart"),
                   fresh, t, sound)

\* handleRestart
HandleRestart(s, fresh, t, sound) ==
    StartListening(Tag([s EXCEPT !.ui.currentIndex = 0,
                                 !.ui.isFinished = FALSE,
                                 !.ref.lastNoteTime = 0,
                                 !.ui.errorMsg = "",
                                 !.ui.noteProgress = 0,
                                 !.ref.holdStartTime = 0,
                                 !.ref.lastCompletedNote = "null",
                                 !.ref.requireSilence = FALSE], "restart"),
                   fresh, t, sound)

\* startNoiseCalibration
StartNoiseCalibration(s, fresh, t, sound) ==
    LET s1 == [s EXCEPT !.ui.isCalibrating = TRUE,
                        !.ui.calibrationPhase = "noise",
                        !.ui.errorMsg = "",
                        !.ui.noiseFloor = 0]
    IN  IF ~s.ui.isListening
        THEN AwaitStart(s1, BeginStart(s1, "noise", fresh), "noise", t, sound)
        ELSE Render(s1)

\* Math.max(0.0003, noise * 2.5)
NoiseThresholdUnbounded(noise) == (noise * 25) \div 10
NoiseThreshold(noise) == Max(3, (noise * 25) \div 10)

\* stopNoiseCalibration
StopNoiseCalibration(s) ==
    LET noise == s.ui.currentRms
    IN  Render(Tag([s EXCEPT !.ui.noiseFloor = noise,
                             !.ui.config.rmsThreshold = NoiseThreshold(noise),
                             !.ui.calibrationPhase = "idle",
                             !.ui.isCalibrating = FALSE], "stopNoise"))

\* startNoteCalibration
StartNoteCalibration(s, fresh, t, sound) ==
    LET s1 == [s EXCEPT !.ui.isCalibrating = TRUE,
                        !.ui.calibrationPhase = "note",
                        !.ui.errorMsg = ""]
    IN  IF ~s.ui.isListening
        THEN AwaitStart(s1, BeginStart(s1, "note", fresh), "note", t, sound)
        ELSE Render([s1 EXCEPT !.eng.rmsThreshold = PermissiveRms,
                               !.eng.correlationThreshold = PermissiveCorrelation])

\* Math.max(0.005, Math.min(currentClarity * 0.5, 0.3))
ClarityThresholdUnbounded(clarity) == clarity \div 2
ClarityThreshold(clarity) == Max(5, Min(clarity \div 2, 300))

\* stopNoteCalibration
StopNoteCalibration(s) ==
    LET ok == s.ui.detectedNote # "" /\ s.ui.detectedNote # "..." /\ s.ui.currentClarity > 10
        s1 == IF ok
              THEN [s EXCEPT !.ui.config.correlationThreshold =
                                 ClarityThreshold(s.ui.currentClarity),
                             !.ui.errorMsg = ""]
              ELSE Tag([s EXCEPT !.ui.errorMsg = "No note detected"], "noNote")
        s2 == [s1 EXCEPT !.ui.calibrationPhase = "idle",
                         !.ui.isCalibrating = FALSE,
                         !.eng.rmsThreshold = s.ui.config.rmsThreshold,
                         !.eng.correlationThreshold = s.ui.config.correlationThreshold]
    IN  Render(Tag(s2, "stopNote"))

RemoveAt(q, i) == [k \in 1..(Len(q) - 1) |-> IF k < i THEN q[k] ELSE q[k + 1]]

\* AudioEngine.start(), the catch block, then the caller's catch block
StartThrows(s, who) == StartFailed(StopEngine(s), who)

\* getUserMedia resolved for the suspended call i: start() resumes at line 50
GumGranted(s, i, t, sound) ==
    LET who == s.calls[i].who
        s1  == [s EXCEPT !.eng.stream = TRUE,
                         !.eng.orphan = @ \/ s.eng.stream]
    IN  IF s1.eng.ctx = "none"
        THEN StartThrows([s1 EXCEPT !.calls = RemoveAt(@, i)], who)
        ELSE IF s1.eng.ctx = "suspended"
        THEN [s1 EXCEPT !.calls[i].pc = "resume"]
        ELSE Started([s1 EXCEPT !.calls = RemoveAt(@, i),
                                !.eng = EngineStartFinish(@)], who, t, sound)

\* getUserMedia rejected for the suspended call i
GumDenied(s, i) ==
    Tag(StartThrows([s EXCEPT !.calls = RemoveAt(@, i)], s.calls[i].who), "denied")

\* audioContext.resume() settled for the suspended call i: start() resumes at
\* line 60.  A context closed meanwhile may settle the promise either way.
ResumeSettled(s, i, fulfilled, t, sound) ==
    LET c  == s.calls[i]
        s1 == [s EXCEPT !.calls = RemoveAt(@, i)]
    IN  IF ~fulfilled \/ s1.eng.ctx = "none"
        THEN StartThrows(s1, c.who)
        ELSE Started([s1 EXCEPT !.eng = EngineStartFinish(
                                   [@ EXCEPT !.ctx = IF c.closed THEN @ ELSE "running"])],
                     c.who, t, sound)

(***************************************************************************)
(* State machine                                                           *)
(***************************************************************************)
World ==
    [ui |-> ui, rendered |-> rendered, ref |-> ref, eng |-> eng,
     rafs |-> rafs, calls |-> calls, store |-> store, log |-> {}]

InitUi(hold) ==
    [currentIndex |-> 0, detectedNote |-> "...", isListening |-> FALSE,
     isFinished |-> FALSE, errorMsg |-> "", currentRms |-> 0,
     currentClarity |-> 0, currentFreq |-> 0, isCalibrating |-> FALSE,
     calibrationPhase |-> "idle", noiseFloor |-> 0,
     config |-> LoadedConfig(hold), noteProgress |-> 0]

InitRef(hold) ==
    [requestRef |-> 0, lastNoteTime |-> 0, holdStartTime |-> 0,
     currentIndex |-> 0, isListening |-> FALSE, isCalibrating |-> FALSE,
     config |-> LoadedConfig(hold), lastCompletedNote |-> "null",
     requireSilence |-> FALSE]

\* emptySince: a frame with no note was polled since the last accepted
\* advance; heldNotes: the notes detected by the frames polled since holdStart
\* was set; lastAdvance: Date.now() of the last accepted advance of this run;
\* restarted: handleRestart has begun this run
NoteNames == {LYRE_NOTES[k] : k \in DOMAIN LYRE_NOTES}

InitObs ==
    [emptySince |-> FALSE, heldNotes |-> {}, lastAdvance |-> -1, restarted |-> FALSE]

\* the observations after a step that took the world to w
NextObs(w) ==
    LET accepted == "advanced" \in w.log \/ "finished" \in w.log
    IN  IF "restart" \in w.log THEN [InitObs EXCEPT !.restarted = TRUE]
        ELSE [restarted |-> obs.restarted,
              emptySince |-> IF accepted THEN FALSE
                             ELSE IF "empty" \in w.log THEN TRUE
                             ELSE obs.emptySince,
              heldNotes |-> IF w.ref.holdStartTime = 0 THEN {}
                            ELSE IF ref.holdStartTime = 0 THEN w.log \cap NoteNames
                            ELSE obs.heldNotes \cup (w.log \cap NoteNames),
              lastAdvance |-> IF accepted THEN now ELSE obs.lastAdvance]

\* a step took the program to s2
Commit(s2) ==
    \E w \in {s2} :
       /\ ui' = w.ui
       /\ rendered' = w.rendered
       /\ ref' = w.ref
       /\ eng' = w.eng
       /\ rafs' = w.rafs
       /\ calls' = w.calls
       /\ store' = w.store
       /\ ev' = w.log
       /\ obs' = NextObs(w)

\* ... at one instant
Do(s2) == Commit(s2) /\ UNCHANGED <<song, now, feed>>

\* a re-render that will run ref-sync effects is queued
dirty == Deps(ui) # rendered

\* the controls on screen; clicks arrive on a committed render
CanClick == ~dirty
CtxStates == {"suspended", "running"}
T0 == CHOOSE t \in StartTimes : TRUE

\* the sounds worth telling apart when checkPitch may run in this step
Audible == IF Ready(eng) THEN Sounds ELSE {""}

\* a patient player clicks a control that calls start() only when no start()
\* is pending and no loop is running; an impatient one clicks whenever the
\* control is on screen (MaxRafs bounds what is alive at once)
Patient == calls = <<>> /\ rafs = {}
Impatient == Cardinality(rafs) + Len(calls) < MaxRafs

Mounted ==
    /\ \E hold \in HoldDurations :
          /\ ui = InitUi(hold)
          /\ ref = InitRef(hold)
          /\ eng = [NewEngine EXCEPT !.rmsThreshold = DefaultRmsThreshold,
                                     !.correlationThreshold = DefaultCorrelationThreshold]
          /\ store = Stringify(LoadedConfig(hold))
    /\ rendered = Deps(ui)
    /\ rafs = {}
    /\ calls = <<>>
    /\ now \in StartTimes
    /\ ev = {}
    /\ obs = InitObs

Init ==
    /\ song \in Songs
    /\ feed = <<>>
    /\ Mounted

\* the states a context created by this click may start in
Fresh == IF eng.ctx = "none" THEN CtxStates ELSE {"suspended"}

ClickStart(player) ==
    /\ CanClick /\ player
    /\ ~ui.isFinished /\ ui.errorMsg = "" /\ ~ui.isListening
    /\ \E fresh \in Fresh, sound \in Audible :
          Do(StartListening(World, fresh, now, sound))

ClickStop ==
    /\ CanClick
    /\ ~ui.isFinished /\ ui.errorMsg = "" /\ ui.isListening
    /\ Do(Render(StopListening(World)))

ClickRestart(player) ==
    /\ CanClick /\ player
    /\ ui.isFinished
    /\ \E fresh \in Fresh, sound \in Audible :
          Do(HandleRestart(World, fresh, now, sound))

ClickStartNoise(player) ==
    /\ CanClick /\ (ui.isListening \/ player)
    /\ ~ui.isFinished /\ ~ui.isCalibrating
    /\ \E fresh \in Fresh, sound \in Audible :
          Do(StartNoiseCalibration(World, fresh, now, sound))

ClickStopNoise ==
    /\ CanClick
    /\ ~ui.isFinished /\ ui.calibrationPhase = "noise"
    /\ Do(StopNoiseCalibration(World))

ClickStartNote(player) ==
    /\ CanClick /\ (ui.isListening \/ player)
    /\ ~ui.isFinished /\ ~ui.isCalibrating
    /\ \E fresh \in Fresh, sound \in Audible :
          Do(StartNoteCalibration(World, fresh, now, sound))

ClickStopNote ==
    /\ CanClick
    /\ ~ui.isFinished /\ ui.calibrationPhase = "note"
    /\ Do(StopNoteCalibration(World))

\* the browser grants or denies the microphone to a waiting start() call
MicGranted ==
    \E i \in DOMAIN calls, sound \in Sounds :
       /\ calls[i].pc = "gum"
       /\ Do(GumGranted(World, i, now, sound))

MicDenied ==
    \E i \in DOMAIN calls :
       /\ calls[i].pc = "gum"
       /\ Do(GumDenied(World, i))

ContextResumed ==
    \E i \in DOMAIN calls :
       /\ calls[i].pc = "resume"
       /\ \E sound \in Sounds, fulfilled \in {TRUE} \cup (IF calls[i].closed THEN {FALSE} ELSE {}) :
             Do(ResumeSettled(World, i, fulfilled, now, sound))

\* the display refreshes: a requested frame fires and runs checkPitch
Frame ==
    \E id \in rafs, sound \in Audible :
       Do(CheckPitch([World EXCEPT !.rafs = @ \ {id}], now, sound))

\* React commits the queued re-render and runs the effects
Rerender ==
    /\ dirty
    /\ Do(Render(World))

\* time passes, up to `ticks` steps in all; a queued re-render never waits
\* that long
Pass(ticks) ==
    /\ ~dirty
    /\ \E d \in Steps :
          /\ now + d <= T0 + ticks * d
          /\ now' = now + d
    /\ ev' = {}
    /\ UNCHANGED <<song, ui, rendered, ref, eng, rafs, calls, feed, store, obs>>

Tick == Pass(MaxTicks)
ShortTick == Pass(MaxShortTicks)
CalibrationTick == Pass(MaxCalibrationTicks)

\* the lesson with a patient player
Next ==
    \/ ClickStart(Patient) \/ ClickStop \/ ClickRestart(Patient)
    \/ MicGranted \/ MicDenied \/ ContextResumed
    \/ Frame \/ Rerender \/ Tick

Spec == Init /\ [][Next]_vars

\* the lesson and the calibration starts with an impatient player, over a
\* short time: start() calls overlap
NextOverlap ==
    \/ ClickStart(Impatient) \/ ClickStop \/ ClickRestart(Impatient)
    \/ ClickStartNoise(Impatient) \/ ClickStartNote(Impatient)
    \/ MicGranted \/ MicDenied \/ ContextResumed
    \/ Frame \/ Rerender \/ ShortTick

SpecOverlap == Init /\ [][NextOverlap]_vars

\* every control with a patient player, over a short time
NextCalibration ==
    \/ ClickStart(Patient) \/ ClickStop \/ ClickRestart(Patient)
    \/ ClickStartNoise(Patient) \/ ClickStopNoise
    \/ ClickStartNote(Patient) \/ ClickStopNote
    \/ MicGranted \/ MicDenied \/ ContextResumed
    \/ Frame \/ Rerender \/ CalibrationTick

SpecCalibration == Init /\ [][NextCalibration]_vars

(***************************************************************************)
(* Scripted performances: the player gives each sound for a set time and   *)
(* the display polls every FramePeriod, committing the re-render between   *)
(* two frames.                                                             *)
(***************************************************************************)
FramePeriod == CHOOSE p \in FramePeriods : TRUE
Frames(ms) == ms \div FramePeriod
Repeat(x, n) == [i \in 1..n |-> x]

RECURSIVE EachFor(_, _)
EachFor(notes, ms) ==
    IF notes = <<>> THEN <<>>
    ELSE Repeat(Head(notes), Frames(ms)) \o EachFor(Tail(notes), ms)

\* every target in turn, 120 ms each, no gaps
HappyPath(notes) == EachFor(notes, 120)
\* every target in turn, 600 ms each, no gaps
SlowPath(notes) == EachFor(notes, 600)
\* the first target for 300 ms, one frame of silence, then the second target
\* for the time it takes the sixth frame to see 100 ms of it
DuplicateGating(notes) ==
    Repeat(notes[1], Frames(300)) \o <<"">> \o Repeat(notes[2], Frames(100) + 1)
\* the same with the second target kept for 300 ms
DuplicateHeld(notes) ==
    Repeat(notes[1], Frames(300)) \o <<"">> \o Repeat(notes[2], Frames(300))

Performances(notes) ==
    {HappyPath(notes), SlowPath(notes)}
        \cup (IF Len(notes) >= 2 THEN {DuplicateGating(notes), DuplicateHeld(notes)} ELSE {})

PerformedSongs == Songs \cup {<<"C4", "D4", "E4">>}

InitPerformance ==
    /\ song \in PerformedSongs
    /\ feed \in Performances(song)
    /\ Mounted

\* the frame of the performance due now, then the re-render it queued; once
\* the loop has ended the performance plays on unheard
FedFrame ==
    /\ ~dirty
    /\ (now - T0) \div FramePeriod < Len(feed)
    /\ IF rafs # {}
       THEN \E id \in rafs :
               Commit(Render(CheckPitch([World EXCEPT !.rafs = @ \ {id}], now,
                                        feed[((now - T0) \div FramePeriod) + 1])))
       ELSE /\ ui.isFinished
            /\ ev' = {}
            /\ UNCHANGED <<ui, rendered, ref, eng, rafs, calls, store, obs>>
    /\ now' = now + FramePeriod
    /\ UNCHANGED <<song, feed>>

NextPerformance ==
    \/ ClickStart(Patient)
    \/ MicGranted \/ ContextResumed
    \/ Rerender \/ FedFrame

SpecPerformance == InitPerformance /\ [][NextPerformance]_vars

(***************************************************************************)
(* The engine alone, driven as a test harness drives it: start(), stop(),  *)
(* setGain(x), the threshold fields and detectPitch() on a chosen window.  *)
(* Here the histories and the noise ring are exactly what the frames       *)
(* polled so far made them.  A start() call runs to its end before the     *)
(* next call (the calls that overlap are in the tutor specifications).     *)
(***************************************************************************)
\* a silent room
Quiet ==
    [rms |-> 1, clarity |-> 0, zcr |-> 0, flatness |-> 1000,
     harmonics |-> FALSE, frequency |-> 0]
\* a string plucked too softly for the default RMS threshold
SoftTone == [WindowOf("A4") EXCEPT !.rms = 15]
\* a clear loud tone halfway between two lyre strings (C#4, 277.2 Hz)
OffPitch == [WindowOf("C4") EXCEPT !.frequency = 2772]
\* a clear loud tone above the lyre band (1400 Hz)
OutOfBand == [WindowOf("C4") EXCEPT !.frequency = 14000]

EngineWindows == {Quiet, WindowOf("A4"), WindowOf("C4"), SoftTone, OffPitch, OutOfBand}

\* the values handed to setGain, in tenths
Gains == {3, 5, 15, 50, 55}
\* the values written to rmsThreshold and correlationThreshold
ThresholdPairs ==
    {<<EngineRmsThreshold, EngineCorrelationThreshold>>,
     <<PermissiveRms, PermissiveCorrelation>>}

\* AudioEngine.start() run to its end with the microphone granted
EngineStarted(e) ==
    IF e.ctx = "running" THEN e
    ELSE EngineStartFinish([e EXCEPT !.ctx = "running", !.stream = TRUE])

\* n calls of detectPitch on the same window
RECURSIVE FeedFrames(_, _, _)
FeedFrames(e, w, n) ==
    IF n = 0 THEN e ELSE FeedFrames(DetectPitch(e, w).eng, w, n - 1)

\* a started engine that has listened to the silent room for the warm-up of
\* the noise ring
WarmedUp == FeedFrames(EngineStarted(NewEngine), Quiet, NoiseWarmup)

\* what the harness has seen: polls, the detectPitch calls so far; frames,
\* those since the engine was last started; first, the window of the first
\* of them; steady, all of them carried that window; stops, the stop() calls
\* in a row; asked, the value just handed to setGain; result, what the last
\* detectPitch returned; window, the window it was given
EngineObs(polls, frames, first, steady, stops, asked, result, window) ==
    [polls |-> polls, frames |-> frames, first |-> first, steady |-> steady,
     stops |-> stops, asked |-> asked, result |-> result, window |-> window]

\* ... when a session begins
NewSession == EngineObs(obs.polls, 0, Quiet, TRUE, 0, 0, NoResult, Quiet)

InitEngine ==
    /\ song = <<"C4">>
    /\ feed = <<>>
    /\ \E hold \in HoldDurations :
          ui = InitUi(hold) /\ ref = InitRef(hold) /\ store = Stringify(LoadedConfig(hold))
    /\ rendered = Deps(ui)
    /\ rafs = {}
    /\ calls = <<>>
    /\ now = T0
    /\ ev = {}
    /\ \/ eng = NewEngine /\ obs = EngineObs(0, 0, Quiet, TRUE, 0, 0, NoResult, Quiet)
       \/ eng = WarmedUp /\ obs = EngineObs(0, NoiseWarmup, Quiet, TRUE, 0, 0, NoResult, Quiet)

\* the harness leaves the tutor alone
tutor == <<song, ui, rendered, ref, rafs, calls, now, feed, store>>

\* start() resolves
EngineStart ==
    /\ eng' = EngineStarted(eng)
    /\ ev' = {"start"}
    /\ obs' = IF eng.ctx = "running" THEN [obs EXCEPT !.stops = 0, !.asked = 0]
              ELSE NewSession
    /\ UNCHANGED tutor

\* start() rejects: the microphone is denied
EngineStartDenied ==
    /\ eng.ctx # "running"
    /\ eng' = EngineStop(eng)
    /\ ev' = {"denied"}
    /\ obs' = NewSession
    /\ UNCHANGED tutor

EngineStopped ==
    /\ eng' = EngineStop(eng)
    /\ ev' = {"stop"}
    /\ obs' = [NewSession EXCEPT !.stops = Min(obs.stops + 1, 2)]
    /\ UNCHANGED tutor

EngineSetGain ==
    \E x \in Gains :
       /\ eng' = SetGain(eng, x)
       /\ ev' = {"setGain"}
       /\ obs' = [obs EXCEPT !.stops = 0, !.asked = x]
       /\ UNCHANGED tutor

EngineSetThresholds ==
    \E p \in ThresholdPairs :
       /\ <<eng.rmsThreshold, eng.correlationThreshold>> # p
       /\ eng' = [eng EXCEPT !.rmsThreshold = p[1], !.correlationThreshold = p[2]]
       /\ ev' = {"thresholds"}
       /\ obs' = [obs EXCEPT !.stops = 0, !.asked = 0]
       /\ UNCHANGED tutor

\* detectPitch() on one of the windows ws (on silence if the engine is not
\* capturing)
EngineDetect(ws) ==
    /\ obs.polls < MaxFrames
    /\ \E w \in (IF Ready(eng) THEN ws ELSE {Quiet}) :
          \E d \in {DetectPitch(eng, w)} :
             /\ eng' = d.eng
             /\ ev' = {"detect"}
             /\ obs' = IF ~d.result.ok
                       THEN [obs EXCEPT !.polls = @ + 1, !.stops = 0, !.asked = 0,
                                        !.result = d.result]
                       ELSE EngineObs(obs.polls + 1, obs.frames + 1,
                                      IF obs.frames = 0 THEN w ELSE obs.first,
                                      obs.steady /\ (obs.frames = 0 \/ w = obs.first),
                                      0, 0, d.result, w)
             /\ UNCHANGED tutor

\* the engine fed with frames
NextEngine ==
    \/ EngineStart \/ EngineStartDenied \/ EngineStopped
    \/ EngineSetThresholds \/ EngineDetect(EngineWindows)

SpecEngine == InitEngine /\ [][NextEngine]_vars

\* the engine's controls, in a silent room
NextControls ==
    \/ EngineStart \/ EngineStartDenied \/ EngineStopped
    \/ EngineSetGain \/ EngineSetThresholds \/ EngineDetect({Quiet})

SpecControls == InitEngine /\ [][NextControls]_vars


(***************************************************************************)
(* The gates of detectPitch: the engine fed with windows that each fail    *)
(* one gate, with a muted microphone, and after a long silence that filled *)
(* the noise ring.                                                         *)
(***************************************************************************)
\* a muted microphone: every sample is 0
Muted ==
    [rms |-> 0, clarity |-> 0, zcr |-> 0, flatness |-> 1000,
     harmonics |-> FALSE, frequency |-> 0]
\* a loud hiss whose pitch estimate happens to be clear
Hiss == [WindowOf("A4") EXCEPT !.zcr = 400]
\* a loud tone with a vague pitch estimate
Unclear == [WindowOf("A4") EXCEPT !.clarity = 200]
\* a loud flat spectrum without harmonic peaks, and with them
Flat == [WindowOf("A4") EXCEPT !.flatness = 500, !.harmonics = FALSE]
FlatHarmonic == [WindowOf("A4") EXCEPT !.flatness = 500]

GateWindows ==
    {Muted, Quiet, WindowOf("A4"), Hiss, Unclear, Flat, FlatHarmonic, OutOfBand}

\* a started engine whose noise ring a long silence has filled: what
\* NOISE_FLOOR_WINDOW calls of detectPitch on Quiet leave behind
Saturated ==
    [EngineStarted(NewEngine) EXCEPT
        !.noteHistory = [i \in 1..HISTORY_SIZE |-> ""],
        !.frequencyHistory = [i \in 1..HISTORY_SIZE |-> Quiet.frequency],
        !.noiseFloorSamples = [i \in 1..NOISE_FLOOR_WINDOW |-> Quiet.rms],
        !.noiseFloor = Quiet.rms]

InitGates ==
    /\ song = <<"C4">>
    /\ feed = <<>>
    /\ \E hold \in HoldDurations :
          ui = InitUi(hold) /\ ref = InitRef(hold) /\ store = Stringify(LoadedConfig(hold))
    /\ rendered = Deps(ui)
    /\ rafs = {}
    /\ calls = <<>>
    /\ now = T0
    /\ ev = {}
    /\ \/ eng = NewEngine /\ obs = EngineObs(0, 0, Quiet, TRUE, 0, 0, NoResult, Quiet)
       \/ eng = WarmedUp /\ obs = EngineObs(0, NoiseWarmup, Quiet, TRUE, 0, 0, NoResult, Quiet)
       \/ eng = Saturated
          /\ obs = EngineObs(0, NOISE_FLOOR_WINDOW, Quiet, TRUE, 0, 0, NoResult, Quiet)

NextGates == EngineStart \/ EngineStopped \/ EngineDetect(GateWindows)

SpecGates == InitGates /\ [][NextGates]_vars

(***************************************************************************)
(* The noise ring over whole sessions: the engine is started and stopped   *)
(* and polled on a muted microphone and on a loud string, long enough for  *)
(* a session to outlast the warm-up of the ring.                           *)
(***************************************************************************)
MaxNoiseFrames == 11

NoiseWindows == {Muted, WindowOf("A4")}

NoiseFrame ==
    /\ obs.polls < MaxNoiseFrames
    /\ \E w \in (IF Ready(eng) THEN NoiseWindows ELSE {Quiet}) :
          \E d \in {DetectPitch(eng, w)} :
             /\ eng' = d.eng
             /\ ev' = {"detect"}
             /\ obs' = IF ~d.result.ok
                       THEN [obs EXCEPT !.polls = @ + 1, !.stops = 0, !.asked = 0,
                                        !.result = d.result]
                       ELSE EngineObs(obs.polls + 1, obs.frames + 1,
                                      IF obs.frames = 0 THEN w ELSE obs.first,
                                      obs.steady /\ (obs.frames = 0 \/ w = obs.first),
                                      0, 0, d.result, w)
             /\ UNCHANGED tutor

NextNoise == EngineStart \/ EngineStopped \/ NoiseFrame

SpecNoise == InitEngine /\ [][NextNoise]_vars

(***************************************************************************)
(* frequencyToLyreNote on its own: every frequency of a sweep, in steps of *)
(* 0.1 Hz from below the lyre band to above it, is classified once.        *)
(***************************************************************************)
MinFrequency == 1600
MaxFrequency == 11100

Unclassified(f) == [frequency |-> f, classified |-> FALSE, note |-> ""]

InitClassifier ==
    /\ song = <<"C4">>
    /\ feed = <<>>
    /\ \E hold \in HoldDurations :
          ui = InitUi(hold) /\ ref = InitRef(hold) /\ store = Stringify(LoadedConfig(hold))
    /\ rendered = Deps(ui)
    /\ rafs = {}
    /\ calls = <<>>
    /\ now = T0
    /\ ev = {}
    /\ eng = NewEngine
    /\ \E f \in MinFrequency..MaxFrequency : obs = Unclassified(f)

ClassifyFrequency ==
    /\ ~obs.classified
    /\ obs' = [obs EXCEPT !.classified = TRUE,
                          !.note = FrequencyToLyreNote(obs.frequency)]
    /\ ev' = {"classify"}
    /\ UNCHANGED <<eng, tutor>>

NextClassifier == ClassifyFrequency

SpecClassifier == InitClassifier /\ [][NextClassifier]_vars

(***************************************************************************)
(* The audio configuration and its copy in localStorage: the settings      *)
(* panel changes the configuration, the config effect saves it, and the    *)
(* lesson is left and opened again (the item may have been rewritten in    *)
(* between by another page of the same origin).                            *)
(***************************************************************************)
\* the values of the sliders that are tried, and the gain bounds, in tenths
SliderRms == {1, 20}
SliderClarity == {10, 300}
MinGain == 5
MaxGain == 50
GainStep == 5

\* onChange of the Volume Threshold slider
SetRmsThreshold(s, v) == Render(Tag([s EXCEPT !.ui.config.rmsThreshold = v], "slider"))

\* onChange of the Clarity Threshold slider
SetCorrelationThreshold(s, v) ==
    Render(Tag([s EXCEPT !.ui.config.correlationThreshold = v], "slider"))

\* increaseGain
IncreaseGain(s) ==
    LET newGain == Min(s.ui.config.gain + GainStep, MaxGain)
    IN  Render(Tag([s EXCEPT !.ui.config.gain = newGain,
                             !.eng = SetGain(@, newGain)], "gain"))

\* decreaseGain
DecreaseGain(s) ==
    LET newGain == Max(s.ui.config.gain - GainStep, MinGain)
    IN  Render(Tag([s EXCEPT !.ui.config.gain = newGain,
                             !.eng = SetGain(@, newGain)], "gain"))

\* the component is mounted: useState(loadConfig), a new AudioEngine given the
\* configured thresholds (it has no gain node yet), and the first run of the
\* config effect, which saves the configuration
Mount(s) ==
    LET c == LoadConfig(s.store)
        u == [InitUi(c.holdDuration) EXCEPT !.config = c]
    IN  Tag([s EXCEPT !.ui = u,
                      !.ref = [InitRef(c.holdDuration) EXCEPT !.config = c],
                      !.rendered = Deps(u),
                      !.eng = SetGain([NewEngine EXCEPT
                                  !.rmsThreshold = c.rmsThreshold,
                                  !.correlationThreshold = c.correlationThreshold],
                                  c.gain),
                      !.store = Stringify(c)], "mount")

\* what the item may hold when the lesson is opened: nothing, a text that is
\* not JSON, a JSON value that is no object, and objects that have some of
\* the four fields (with values other than the defaults), a member the
\* program does not know, or a field twice
StoredConfig ==
    [rmsThreshold |-> 20, correlationThreshold |-> 300, holdDuration |-> 200, gain |-> 55]

Kept(m) == m.value # -1

StoredObjects ==
    {Item("object",
          SelectSeq([i \in DOMAIN ConfigFields |->
                        Member(ConfigFields[i],
                               IF ConfigFields[i] \in has
                               THEN StoredConfig[ConfigFields[i]] ELSE -1)],
                    Kept)) :
       has \in SUBSET {ConfigFields[i] : i \in DOMAIN ConfigFields}}

Items ==
    {Item("absent", <<>>), Item("text", <<>>), Item("value", <<>>),
     Item("object", <<Member("volume", 7)>>),
     Item("object", <<Member("gain", 20), Member("volume", 7), Member("gain", 30)>>),
     Stringify(GetDefaultConfig)}
    \cup StoredObjects

\* the page before the lesson is opened for the first time
Unmounted(item) ==
    [ui |-> InitUi(DefaultHoldDuration), rendered |-> Deps(InitUi(DefaultHoldDuration)),
     ref |-> InitRef(DefaultHoldDuration), eng |-> NewEngine,
     rafs |-> {}, calls |-> <<>>, store |-> item, log |-> {}]

InitConfig ==
    /\ song = <<"C4">>
    /\ feed = <<>>
    /\ \E item \in Items :
          \E w \in {Mount(Unmounted(item))} :
             /\ ui = w.ui
             /\ ref = w.ref
             /\ rendered = w.rendered
             /\ eng = w.eng
             /\ store = w.store
    /\ rafs = {}
    /\ calls = <<>>
    /\ now = T0
    /\ ev = {}
    /\ obs = InitObs

MoveRmsSlider ==
    /\ CanClick
    /\ ~ui.isFinished
    /\ \E v \in SliderRms : Do(SetRmsThreshold(World, v))

MoveClaritySlider ==
    /\ CanClick
    /\ ~ui.isFinished
    /\ \E v \in SliderClarity : Do(SetCorrelationThreshold(World, v))

ClickIncreaseGain ==
    /\ CanClick
    /\ ~ui.isFinished
    /\ Do(IncreaseGain(World))

ClickDecreaseGain ==
    /\ CanClick
    /\ ~ui.isFinished
    /\ Do(DecreaseGain(World))

\* another page of the origin rewrites the item
StorageEdited ==
    /\ \E item \in Items : store' = item
    /\ ev' = {"edited"}
    /\ UNCHANGED <<song, ui, rendered, ref, eng, rafs, calls, now, feed, obs>>

\* the lesson is left while nothing is listening, and opened again
Remount ==
    /\ CanClick
    /\ ~ui.isListening /\ rafs = {} /\ calls = <<>> /\ eng.ctx = "none"
    /\ Do(Mount(World))

NextConfig ==
    \/ MoveRmsSlider \/ MoveClaritySlider
    \/ ClickIncreaseGain \/ ClickDecreaseGain
    \/ StorageEdited \/ Remount

SpecConfig == InitConfig /\ [][NextConfig]_vars

(***************************************************************************)
(* The gain control and the start of the engine: the lesson is opened with *)
(* whatever the stored item gives, the player moves the gain and starts    *)
(* and stops listening.                                                    *)
(***************************************************************************)
NextGain ==
    \/ ClickIncreaseGain \/ ClickDecreaseGain
    \/ ClickStart(Patient) \/ ClickStop
    \/ MicGranted \/ ContextResumed
    \/ Rerender

SpecGain == InitConfig /\ [][NextGain]_vars

(***************************************************************************)
(* The preset songs, played by a diligent player: every frame the player   *)
(* plucks the string of the note on display, and rests for a frame when    *)
(* the tutor waits for silence.  The engine hears each sound settled, one  *)
(* frame every Steps milliseconds.  Only `note` of each entry is listed:   *)
(* bassNote and lyric never reach checkPitch.                              *)
(***************************************************************************)
MaxLessonFrames == 80

\* PRESET_SONGS, the note of every entry, in the order of the file:
\*    1  Twinkle Twinkle Little Star (42 notes)
\*    2  Ode to Joy (30 notes)
\*    3  Amazing Grace (29 notes)
\*    4  Canon in C (30 notes)
\*    5  Greensleeves (44 notes)
\*    6  Scarborough Fair (33 notes)
\*    7  Fuer Elise (simplified) (35 notes)
\*    8  River Flows in You (38 notes)
\*    9  My Heart Will Go On (37 notes)
\*   10  Hallelujah (33 notes)
\*   11  Yesterday (29 notes)
\*   12  Moon River (35 notes)
\*   13  Can't Help Falling in Love (39 notes)
\*   14  Over the Rainbow (23 notes)
\*   15  Danny Boy (42 notes)
\*   16  Silent Night (32 notes)
\*   17  Auld Lang Syne (50 notes)
PRESET_SONGS == <<
    <<
      "C4", "C4", "G4", "G4", "A4", "A4", "G4", "F4", "F4", "E4", "E4",
      "D4", "D4", "C4", "G4", "G4", "F4", "F4", "E4", "E4", "D4", "G4",
      "G4", "F4", "F4", "E4", "E4", "D4", "C4", "C4", "G4", "G4", "A4",
      "A4", "G4", "F4", "F4", "E4", "E4", "D4", "D4", "C4"
    >>,
    <<
      "E4", "E4", "F4", "G4", "G4", "F4", "E4", "D4", "C4", "C4", "D4",
      "E4", "E4", "D4", "D4", "E4", "E4", "F4", "G4", "G4", "F4", "E4",
      "D4", "C4", "C4", "D4", "E4", "D4", "C4", "C4"
    >>,
    <<
      "G3", "C4", "E4", "C4", "E4", "D4", "C4", "A3", "G3", "C4", "E4",
      "C4", "E4", "G4", "E4", "G4", "E4", "G4", "E4", "C4", "A3", "G3",
      "G3", "C4", "E4", "C4", "E4", "D4", "C4"
    >>,
    <<
      "E4", "D4", "C4", "B3", "A3", "G3", "A3", "B3", "E5", "D5", "C5",
      "B4", "A4", "G4", "A4", "B4", "C5", "B4", "A4", "G4", "F4", "E4",
      "F4", "G4", "A4", "G4", "F4", "E4", "D4", "C4"
    >>,
    <<
      "A3", "C4", "D4", "E4", "F4", "E4", "D4", "B3", "G3", "A3", "B3",
      "C4", "A3", "A3", "G3", "A3", "G4", "G4", "F4", "E4", "D4", "B3",
      "G3", "A3", "B3", "C4", "A3", "A3", "G3", "E3", "G4", "G4", "F4",
      "E4", "D4", "B3", "G3", "A3", "G3", "F3", "E3", "D3", "A3", "A3"
    >>,
    <<
      "A3", "A3", "E4", "E4", "E4", "F4", "E4", "D4", "A3", "C4", "B3",
      "A3", "G3", "A3", "E3", "A3", "A3", "C4", "D4", "D4", "D4", "C4",
      "A3", "G3", "F3", "A3", "C4", "B3", "A3", "G3", "A3", "E3", "A3"
    >>,
    <<
      "E5", "D5", "E5", "D5", "E5", "B4", "D5", "C5", "A4", "C4", "E4",
      "A4", "B4", "E4", "A4", "B4", "C5", "E4", "E5", "D5", "E5", "D5",
      "E5", "B4", "D5", "C5", "A4", "C4", "E4", "A4", "B4", "E4", "C5",
      "B4", "A4"
    >>,
    <<
      "A4", "B4", "C5", "B4", "A4", "E4", "A4", "G4", "A4", "E4", "D4",
      "E4", "A4", "G4", "E4", "D4", "A4", "B4", "C5", "B4", "A4", "E4",
      "A4", "G4", "A4", "E4", "D4", "E4", "G4", "F4", "E4", "D4", "C4",
      "D4", "E4", "F4", "G4", "A4"
    >>,
    <<
      "E4", "F4", "F4", "F4", "E4", "F4", "G4", "A4", "G4", "F4", "E4",
      "D4", "E4", "F4", "E4", "D4", "C4", "D4", "E4", "D4", "E4", "F4",
      "G4", "A4", "G4", "F4", "E4", "D4", "E4", "F4", "G4", "A4", "G4",
      "F4", "E4", "D4", "C4"
    >>,
    <<
      "E4", "E4", "E4", "E4", "E4", "D4", "E4", "F4", "G4", "G4", "G4",
      "F4", "E4", "D4", "C4", "C4", "D4", "F4", "A4", "A4", "A4", "G4",
      "E4", "E4", "E4", "F4", "A4", "A4", "A4", "G4", "E4", "D4", "C4"
    >>,
    <<
      "G4", "F4", "E4", "D4", "E4", "F4", "E4", "D4", "C4", "D4", "E4",
      "F4", "G4", "F4", "E4", "D4", "E4", "F4", "G4", "A4", "G4", "F4",
      "E4", "D4", "E4", "F4", "G4", "D4", "C4"
    >>,
    <<
      "C4", "E4", "F4", "G4", "A4", "G4", "F4", "E4", "D4", "E4", "F4",
      "G4", "E4", "C4", "D4", "E4", "C4", "G4", "F4", "E4", "C4", "G4",
      "F4", "E4", "D4", "E4", "F4", "G4", "A4", "G4", "F4", "E4", "D4",
      "C4", "D4"
    >>,
    <<
      "G4", "A4", "B4", "G4", "E4", "F4", "G4", "A4", "D4", "E4", "F4",
      "G4", "A4", "B4", "A4", "G4", "F4", "G4", "E4", "A4", "G4", "F4",
      "E4", "E4", "A4", "G4", "F4", "E4", "E4", "A4", "G4", "F4", "E4",
      "E4", "F4", "G4", "A4", "B4", "C5"
    >>,
    <<
      "C4", "C5", "B4", "G4", "A4", "B4", "C5", "G4", "A4", "B4", "A4",
      "G4", "A4", "G4", "C4", "D4", "E4", "C4", "D4", "E4", "F4", "D4", "C4"
    >>,
    <<
      "C4", "D4", "E4", "F4", "G4", "A4", "G4", "F4", "E4", "F4", "G4",
      "C4", "D4", "E4", "F4", "E4", "D4", "C4", "D4", "E4", "C4", "G4",
      "A4", "C5", "C5", "B4", "A4", "G4", "E4", "D4", "C4", "D4", "E4",
      "G4", "A4", "C5", "C5", "B4", "A4", "G4", "E4", "C5"
    >>,
    <<
      "G4", "A4", "G4", "E4", "F4", "E4", "G4", "A4", "G4", "G4", "A4",
      "G4", "D5", "D5", "B4", "C5", "B4", "G4", "A4", "G4", "C5", "C5",
      "A4", "F4", "G4", "E4", "C4", "G4", "F4", "D4", "C4", "C4"
    >>,
    <<
      "G3", "C4", "C4", "C4", "E4", "D4", "C4", "D4", "E4", "D4", "C4",
      "C4", "A3", "G3", "G3", "C4", "C4", "C4", "E4", "G4", "A4", "A4",
      "A4", "G4", "E4", "E4", "C4", "D4", "A4", "G4", "E4", "E4", "C4",
      "D4", "E4", "G4", "E4", "G4", "A4", "A4", "G4", "E4", "E4", "C4",
      "D4", "C4", "A3", "G3", "A3", "C4"
    >>
>>

InitPresets ==
    /\ song \in {PRESET_SONGS[i] : i \in DOMAIN PRESET_SONGS}
    /\ feed = <<>>
    /\ Mounted

\* what the diligent player sounds while the tutor shows ui.currentIndex
Plucked ==
    IF ref.requireSilence \/ ui.currentIndex + 1 \notin DOMAIN song
    THEN ""
    ELSE song[ui.currentIndex + 1]

\* a frame of the loop hears the player, React commits the re-render it
\* queued, and the next frame is due one step later
PlayedFrame ==
    /\ ~dirty
    /\ now < T0 + MaxLessonFrames * (CHOOSE d \in Steps : TRUE)
    /\ \E id \in rafs :
          Commit(Render(CheckPitch([World EXCEPT !.rafs = @ \ {id}], now,
                                   Plucked)))
    /\ now' = now + (CHOOSE d \in Steps : TRUE)
    /\ UNCHANGED <<song, feed>>

NextPresets ==
    \/ ClickStart(Patient)
    \/ MicGranted \/ ContextResumed
    \/ Rerender \/ PlayedFrame

SpecPresets == InitPresets /\ [][NextPresets]_vars

(***************************************************************************)
(* The temporal smoother on its own: a warmed-up engine whose history      *)
(* holds any five raw notes of earlier frames is polled on silence and on  *)
(* two strings.                                                            *)
(***************************************************************************)
SmootherNotes == {"", "A4", "C4"}
SmootherWindows == {Quiet, WindowOf("A4"), WindowOf("C4")}

\* the engine after frames whose raw notes were h, the room silent before
WithHistory(h) ==
    [WarmedUp EXCEPT
        !.noteHistory = h,
        !.frequencyHistory =
            [i \in DOMAIN h |-> IF h[i] = "" THEN Quiet.frequency
                                ELSE WindowOf(h[i]).frequency]]

InitSmoother ==
    /\ song = <<"C4">>
    /\ feed = <<>>
    /\ \E hold \in HoldDurations :
          ui = InitUi(hold) /\ ref = InitRef(hold) /\ store = Stringify(LoadedConfig(hold))
    /\ rendered = Deps(ui)
    /\ rafs = {}
    /\ calls = <<>>
    /\ now = T0
    /\ ev = {}
    /\ \E h \in [1..HISTORY_SIZE -> SmootherNotes] : eng = WithHistory(h)
    /\ obs = EngineObs(0, NoiseWarmup, Quiet, TRUE, 0, 0, NoResult, Quiet)

NextSmoother == EngineDetect(SmootherWindows)

SpecSmoother == InitSmoother /\ [][NextSmoother]_vars

(***************************************************************************)
(* Claims                                                                  *)
(***************************************************************************)
\* this step accepted an advance: the index moved on or the song finished
Accepted == "advanced" \in ev' \/ "finished" \in ev'
\* this step ran checkPitch from a requested frame
Polled == "checkPitch" \in ev' /\ "started" \notin ev'

\* C1: when the target just passed and the present target are the same note,
\* the present target is passed (or the song finished) only after a frame
\* with no detected note was polled since the last accepted advance.
DuplicateTargetNeedsSilence ==
    [][(/\ Accepted
        /\ ui.currentIndex >= 1
        /\ song[ui.currentIndex] = song[ui.currentIndex + 1])
       => obs.emptySince]_vars

DuplicateSongFinished ==
    /\ Len(song) = 2 /\ song[1] = song[2]
    /\ ui.isFinished

\* C2: an advance is accepted at least 500 ms after the last accepted advance
\* of the same run, and a call of handleCorrectNote earlier than that leaves
\* currentIndex, requireSilence, lastCompletedNote and isFinished alone.
DebounceSeparatesAdvances ==
    [][/\ (Accepted /\ obs.lastAdvance >= 0) => now - obs.lastAdvance >= 500
       /\ ("held" \in ev' /\ obs.lastAdvance >= 0 /\ now - obs.lastAdvance < 500)
             => /\ ui'.currentIndex = ui.currentIndex
                /\ ref'.requireSilence = ref.requireSilence
                /\ ref'.lastCompletedNote = ref.lastCompletedNote
                /\ ui'.isFinished = ui.isFinished]_vars

AdvanceRejected ==
    /\ "rejected" \in ev
    /\ obs.lastAdvance >= 0 /\ now - obs.lastAdvance < 500

\* C3: an advance from target i is accepted only at a frame whose detected
\* note is target i, with requireSilence false, holdStart set at least
\* holdDuration ago and every frame polled since it was set having detected
\* target i; a frame with no note or another note clears holdStart.
AdvanceOnlyAfterHold ==
    [][/\ Accepted =>
             /\ song[ui.currentIndex + 1] \in ev'
             /\ ~ref.requireSilence
             /\ ref.holdStartTime # 0
             /\ now - ref.holdStartTime >= ref.config.holdDuration
             /\ obs.heldNotes = {song[ui.currentIndex + 1]}
       /\ ("empty" \in ev' \/ "other" \in ev') => ref'.holdStartTime = 0]_vars

\* the performance has been played to its end
Played == now = T0 + Len(feed) * FramePeriod
NeighboursDiffer == \A k \in 1..(Len(song) - 1) : song[k] # song[k + 1]
DuplicatePair == Len(song) = 2 /\ song[1] = song[2]

DuplicateGatingCompletes ==
    (DuplicatePair /\ feed = DuplicateGating(song))
       => /\ (now > T0 + 100 /\ now <= T0 + 300) => (ui.currentIndex = 1 /\ ~ui.isFinished)
          /\ Played => ui.isFinished

\* C5: for a song of twice the same note and holdDuration 100, 300 ms of the
\* note move the index from 0 to 1 only; after one frame of silence 100 ms
\* more of the note do not finish the song (the advance comes less than 500 ms
\* after the first and is rejected), 300 ms more do.
DuplicateGatingWaitsForDebounce ==
    /\ (DuplicatePair /\ feed = DuplicateGating(song))
          => /\ (now > T0 + 100 /\ now <= T0 + 300) => (ui.currentIndex = 1 /\ ~ui.isFinished)
             /\ Played => (ui.currentIndex = 1 /\ ~ui.isFinished)
    /\ (DuplicatePair /\ feed = DuplicateHeld(song))
          => /\ (now > T0 + 100 /\ now <= T0 + 300) => (ui.currentIndex = 1 /\ ~ui.isFinished)
             /\ Played => ui.isFinished

DuplicateHeldFinished ==
    /\ DuplicatePair /\ feed = DuplicateHeld(song)
    /\ Played /\ ui.isFinished

\* C6: the index the screen shows and the index checkPitch reads are indices
\* of the song, in every reachable state.
IndexInRange ==
    /\ ui.currentIndex \in 0..(Len(song) - 1)
    /\ ref.currentIndex \in 0..(Len(song) - 1)

\* an advance to the last index was accepted and the index checkPitch reads
\* is still the one before it: the sync effect has not run yet
AdvancedBeforeSync ==
    /\ "advanced" \in ev
    /\ ui.currentIndex = Len(song) - 1
    /\ ref.currentIndex = ui.currentIndex - 1

\* C10: at most one requested frame of checkPitch is alive.
OneChain == Cardinality(rafs) <= 1

OverlappingChains == Cardinality(rafs) = 2

\* C7: the step that accepts the advance from the last index sets isFinished,
\* stops the engine and leaves currentIndex; from then on no step but
\* handleRestart changes currentIndex, isFinished or requireSilence.
FinishedIsTerminal ==
    [][/\ "finished" \in ev' =>
             /\ ui.currentIndex = Len(song) - 1
             /\ ui'.currentIndex = ui.currentIndex
             /\ ui'.isFinished
             /\ eng'.ctx = "none" /\ ~eng'.isListening /\ ~eng'.stream
       /\ (ui.isFinished /\ "restart" \notin ev') =>
             /\ ui'.currentIndex = ui.currentIndex
             /\ ui'.isFinished
             /\ ref'.requireSilence = ref.requireSilence]_vars

FinishedThenIdle ==
    /\ ui.isFinished
    /\ "idle" \in ev

\* C8: stopListening leaves isListeningRef false, and a requested frame that
\* runs while the screen's isListening is false takes the exit at the top of
\* checkPitch: it neither calls detectPitch nor requests another frame.
StopEndsPolling ==
    [][/\ "stop" \in ev' => ~ref'.isListening
       /\ (Polled /\ ~ui.isListening) => ("idle" \in ev' /\ ref'.requestRef = 0)]_vars

\* C9: a requested frame that runs while the engine is not capturing changes
\* neither the tutor's progress nor the engine's analysis memory.
TickAfterStopIsNoOp ==
    [][(Polled /\ eng.ctx = "none") =>
          /\ ui'.currentIndex = ui.currentIndex
          /\ ref'.holdStartTime = ref.holdStartTime
          /\ ui'.noteProgress = ui.noteProgress
          /\ ref'.requireSilence = ref.requireSilence
          /\ ref'.lastNoteTime = ref.lastNoteTime
          /\ ui'.isFinished = ui.isFinished
          /\ eng'.noteHistory = eng.noteHistory
          /\ eng'.frequencyHistory = eng.frequencyHistory
          /\ eng'.noiseFloorSamples = eng.noiseFloorSamples
          /\ eng'.noiseFloor = eng.noiseFloor]_vars

PolledAfterStop ==
    /\ ui.isFinished /\ eng.ctx = "none"
    /\ "null" \in ev /\ "started" \notin ev

\* C11: whenever start() resolves to its caller, the engine is ready and the
\* detectPitch the caller issues next returns a frame, not null.
StartResolvesReady ==
    [][("started" \in ev') =>
          /\ "null" \notin ev'
          /\ ("finished" \notin ev' => (Ready(eng') /\ eng'.ctx = "running"))]_vars

\* C13: when the microphone is denied to a start() call, the engine is left
\* as stop() leaves it and the tutor shows an error and is not listening.
DeniedLeavesStopped ==
    [][("denied" \in ev') =>
          /\ eng' = EngineStop(eng')
          /\ eng'.ctx = "none" /\ ~eng'.stream /\ ~eng'.isListening
          /\ ~Ready(eng')
          /\ ui'.errorMsg # ""
          /\ ~ui'.isListening]_vars

\* the controls of the action bar and of the Finished screen
StartShown == ~ui.isFinished /\ ui.errorMsg = "" /\ ~ui.isListening
RestartShown == ui.isFinished

\* C14: whenever a failed start has left its error message on screen, a
\* control that starts the lesson again (Start Playing or Play Again) is on
\* screen.
ErrorOffersRestart ==
    ui.errorMsg # "" => (StartShown \/ RestartShown)

\* C15: handleRestart leaves index 0 (in the state and in the ref checkPitch
\* reads), isFinished false, requireSilence false, holdStart unset,
\* lastCompletedNote and the debounce timestamp cleared; and a completed hold
\* is rejected only within 500 ms of an advance accepted in the same run.
RestartResets ==
    [][/\ ("restart" \in ev') =>
             /\ ui'.currentIndex = 0 /\ ref'.currentIndex = 0
             /\ ~ui'.isFinished
             /\ ~ref'.requireSilence
             /\ ref'.holdStartTime = 0
             /\ ref'.lastCompletedNote = "null"
             /\ ref'.lastNoteTime = 0
       /\ ("rejected" \in ev') =>
             (obs.lastAdvance >= 0 /\ now - obs.lastAdvance < 500)]_vars

\* the song was finished again less than 500 ms after it was finished the
\* first time
FinishedSoonAfterRestart ==
    /\ obs.restarted
    /\ "finished" \in ev
    /\ now - T0 < 500

\* C12: stop() leaves the context, the nodes and the stream released,
\* isListening false, the histories and the noise ring empty, noiseFloor at
\* 0.001 and the two thresholds as they were; a second stop() changes nothing.
StopReleases ==
    [][("stop" \in ev') =>
          /\ eng'.ctx = "none" /\ ~eng'.analyser /\ ~eng'.stream /\ eng'.gain = 0
          /\ ~eng'.isListening
          /\ eng'.noteHistory = <<>> /\ eng'.frequencyHistory = <<>>
          /\ eng'.noiseFloorSamples = <<>>
          /\ eng'.noiseFloor = 10
          /\ eng'.rmsThreshold = eng.rmsThreshold
          /\ eng'.correlationThreshold = eng.correlationThreshold
          /\ (obs.stops >= 1 => eng' = eng)]_vars

StoppedTwice ==
    /\ obs.stops = 2
    /\ obs.polls > 0
    /\ eng.rmsThreshold = PermissiveRms

\* the 19 diatonic strings F3..C6
LyreSet ==
    {"F3", "G3", "A3", "B3", "C4", "D4", "E4", "F4", "G4", "A4",
     "B4", "C5", "D5", "E5", "F5", "G5", "A5", "B5", "C6"}

\* C16: the note of every frame detectPitch returns is empty or one of the
\* 19 lyre strings.
NoteInLyreSet == obs.result.note \in {""} \cup LyreSet

\* a string was reported while an off-pitch tone is in the history
NoteAmongOffPitch ==
    /\ "detect" \in ev
    /\ obs.result.note \in LyreSet
    /\ \E k \in DOMAIN eng.frequencyHistory : eng.frequencyHistory[k] = OffPitch.frequency

\* the last detectPitch returned a frame no louder than its effective threshold
QuietFrame ==
    /\ "detect" \in ev
    /\ obs.result.ok
    /\ obs.result.volume <= Max(eng.rmsThreshold, 2 * eng.noiseFloor)

\* C17 as written: a frame whose volume is at most the effective RMS
\* threshold max(rmsThreshold, 2 * noiseFloor) of that frame has an empty note.
QuietFrameHasNoNote == QuietFrame => obs.result.note = ""

\* C17: a frame whose volume is at most its effective RMS threshold puts an
\* empty raw note in the history; the note it returns is the one at least 3
\* of the earlier frames still in the history agree on, and empty otherwise.
QuietFrameHasNoRawNote ==
    QuietFrame =>
       LET h == eng.noteHistory
           earlier == SubSeq(h, 1, Len(h) - 1)
       IN  /\ h[Len(h)] = ""
           /\ obs.result.note # "" => CountOf(earlier, obs.result.note) >= 3
           /\ obs.result.note = "" => \A n \in LyreSet : CountOf(earlier, n) < 3

QuietFrameStillHasNote == QuietFrame /\ obs.result.note # ""

\* the window passes every gate but the noise floor's: louder than
\* rmsThreshold, clear, few zero crossings, in the band, tonal, within 50
\* cents of a string
SteadyTone(w, e) ==
    /\ w.rms > e.rmsThreshold
    /\ w.clarity > e.correlationThreshold
    /\ w.zcr <= 300
    /\ (w.flatness < 300 \/ w.harmonics)
    /\ FrequencyToLyreNote(w.frequency) # ""

\* C18: when every frame since the engine was started carried the same
\* steady tone, the 5th frame and every later one return its note.
SteadyToneDetected ==
    (/\ "detect" \in ev /\ obs.result.ok
     /\ obs.steady /\ obs.frames >= 5
     /\ SteadyTone(obs.first, eng))
       => obs.result.note = FrequencyToLyreNote(obs.first.frequency)

\* the name at least 3 entries of the history agree on, if any
AgreedNote(h) ==
    IF \E n \in LyreSet : CountOf(h, n) >= 3
    THEN CHOOSE n \in LyreSet : CountOf(h, n) >= 3
    ELSE ""

\* C19: a frame returned while the note history holds fewer than 5 entries
\* has an empty note; with 5 entries its note is the name with at least 3
\* entries, and empty if there is none.
StableNoteRule ==
    ("detect" \in ev /\ obs.result.ok) =>
       /\ Len(eng.noteHistory) < 5 => obs.result.note = ""
       /\ Len(eng.noteHistory) = 5 => obs.result.note = AgreedNote(eng.noteHistory)

\* two raw notes in a history of fewer than 5 entries
ShortHistoryWithNotes ==
    /\ "detect" \in ev /\ obs.result.ok
    /\ Len(eng.noteHistory) < 5
    /\ \E n \in LyreSet : CountOf(eng.noteHistory, n) = 2

\* C20: setGain(x) on an engine that has its gain node sets the gain to x
\* clamped to [0.5, 5.0].
GainClamped ==
    [][("setGain" \in ev' /\ eng.gain # 0) =>
          eng'.gain = Max(5, Min(obs'.asked, 50))]_vars

\* C21: loadConfig returns, field by field, the value stored under
\* 'lyrehero-audio-config' when the stored JSON object has that field and the
\* default otherwise, all four defaults when the item is absent or is no
\* JSON, and a configuration that was saved is loaded back unchanged.
ConfigLoadedFromStore ==
    [][("mount" \in ev') =>
          /\ \A i \in DOMAIN ConfigFields :
                ui'.config[ConfigFields[i]] =
                    IF store.kind = "object" /\ HasProperty(store, ConfigFields[i])
                    THEN Property(store, ConfigFields[i])
                    ELSE GetDefaultConfig[ConfigFields[i]]
          /\ (store.kind \in {"absent", "text"} => ui'.config = GetDefaultConfig)
          /\ (store = Stringify(ui.config) => ui'.config = ui.config)]_vars

\* the lesson was opened again with a threshold the slider had set and a hold
\* duration the item had held from the beginning, the other fields aside
ConfigSurvivedRemount ==
    /\ "mount" \in ev
    /\ ui.config.rmsThreshold = 1
    /\ ui.config.holdDuration = 200
    /\ ui.config.correlationThreshold = DefaultCorrelationThreshold

\* C22: stopping noise calibration sets the configured rmsThreshold to
\* max(0.0003, 2.5 * rms) for the RMS reading on display, leaves the other
\* three fields alone, ends calibration and leaves the engine's rmsThreshold
\* equal to the new configured value.
NoiseCalibrationSetsThreshold ==
    [][("stopNoise" \in ev') =>
          /\ ui'.config.rmsThreshold * 10 = Max(30, 25 * ui.currentRms)
          /\ ui'.config.correlationThreshold = ui.config.correlationThreshold
          /\ ui'.config.holdDuration = ui.config.holdDuration
          /\ ui'.config.gain = ui.config.gain
          /\ ~ui'.isCalibrating /\ ui'.calibrationPhase = "idle"
          /\ eng'.rmsThreshold = ui'.config.rmsThreshold]_vars

\* noise calibration was stopped on the reading of a polled frame of the room
NoiseCalibrated ==
    /\ "stopNoise" \in ev
    /\ ui.noiseFloor = 4
    /\ ui.config.rmsThreshold = 10
    /\ eng.rmsThreshold = 10

\* C23: stopping note calibration while a note is on display with clarity
\* c > 0.01 sets the configured clarity threshold to min(max(0.5 c, 0.005), 0.3),
\* ends calibration and leaves the engine's rmsThreshold and
\* correlationThreshold equal to the new configured values.
NoteCalibrationSetsThreshold ==
    [][("stopNote" \in ev' /\ ui.detectedNote \notin {"", "..."} /\ ui.currentClarity > 10) =>
          /\ ui'.config.correlationThreshold * 2 = Min(Max(ui.currentClarity, 10), 600)
          /\ ~ui'.isCalibrating /\ ui'.calibrationPhase = "idle"
          /\ eng'.rmsThreshold = ui'.config.rmsThreshold
          /\ eng'.correlationThreshold = ui'.config.correlationThreshold]_vars

\* note calibration was stopped on a string ringing with clarity 0.9
NoteCalibrated ==
    /\ "stopNote" \in ev
    /\ ui.detectedNote \in Notes
    /\ ui.currentClarity = 900
    /\ ui.config.correlationThreshold = 300
    /\ eng.correlationThreshold = 300

\* the message of a calibration that failed is on display
CalibrationFailed(u) ==
    u.errorMsg \in {"No note detected", "Cannot start microphone for calibration"}

\* C24: when note calibration ends with no note detected, or the microphone
\* cannot be started for a calibration, the message is shown and the four
\* config fields keep their values; with calibration over and the message
\* on display, the engine's rmsThreshold and correlationThreshold equal the
\* configured values.
CalibrationFailureKeepsConfig ==
    /\ [][("noNote" \in ev' \/ ("failed" \in ev' /\ CalibrationFailed(ui'))) =>
             CalibrationFailed(ui') /\ ui'.config = ui.config]_vars
    /\ []((CalibrationFailed(ui) /\ ~ui.isCalibrating /\ ~dirty) =>
             /\ eng.rmsThreshold = ui.config.rmsThreshold
             /\ eng.correlationThreshold = ui.config.correlationThreshold)

\* the notes the frame polled in this step detected (none: an empty frame),
\* and whether one of them is the target checkPitch read
FrameNote == ev' \cap NoteNames
Heard == "checkPitch" \in ev' /\ "idle" \notin ev' /\ "null" \notin ev'
OnTarget ==
    /\ ref.currentIndex + 1 \in DOMAIN song
    /\ song[ref.currentIndex + 1] \in FrameNote

\* C25: a frame with no detected note clears holdStart, the progress and
\* requireSilence; a frame with a note other than the target clears holdStart
\* and the progress and leaves requireSilence; a frame with the target while
\* requireSilence is set clears holdStart and the progress and leaves the
\* index and requireSilence.
FrameResets ==
    [][Heard =>
          /\ (FrameNote = {} =>
                 /\ ref'.holdStartTime = 0 /\ ui'.noteProgress = 0
                 /\ ~ref'.requireSilence)
          /\ ((FrameNote # {} /\ ~OnTarget) =>
                 /\ ref'.holdStartTime = 0 /\ ui'.noteProgress = 0
                 /\ ref'.requireSilence = ref.requireSilence)
          /\ ((OnTarget /\ ref.requireSilence) =>
                 /\ ref'.holdStartTime = 0 /\ ui'.noteProgress = 0
                 /\ ui'.currentIndex = ui.currentIndex
                 /\ ref'.requireSilence)]_vars

\* a frame matched the repeated target while silence was still required
MatchedWhileSilenceRequired ==
    /\ "waiting" \in ev
    /\ ref.requireSilence
    /\ ref.holdStartTime = 0
    /\ ui.currentIndex = 1

\* the raw note of the last frame: the newest entry of the note history
RawNote == eng.noteHistory[Len(eng.noteHistory)]
Returned == "detect" \in ev /\ obs.result.ok

\* C26: the raw note of a frame is non-empty only if its RMS exceeds
\* max(rmsThreshold, 2 * noiseFloor), with the noise floor as updated by this
\* frame, its clarity exceeds the clarity threshold, its zero-crossing rate
\* is at most 0.3, its frequency lies in [165, 1100] Hz, and its spectral
\* flatness is below 0.3 or the harmonic check passed.
RawNoteNeedsEveryGate ==
    (Returned /\ RawNote # "") =>
        /\ obs.window.rms > Max(eng.rmsThreshold, 2 * eng.noiseFloor)
        /\ obs.window.clarity > eng.correlationThreshold
        /\ obs.window.zcr <= 300
        /\ obs.window.frequency >= 1650 /\ obs.window.frequency <= 11000
        /\ (obs.window.flatness < 300 \/ obs.window.harmonics)

\* a flat spectrum with harmonic peaks gave a raw note
FlatHarmonicGaveNote ==
    /\ Returned
    /\ obs.window = FlatHarmonic
    /\ RawNote = "A4"

\* the ring after x was appended to ring r
Appended(r, x) ==
    IF Len(r) < 50 THEN Append(r, x) ELSE Append(SubSeq(r, 2, Len(r)), x)

\* C28: detectPitch appends the frame's RMS to the noise ring exactly when
\* rms < 3 * noiseFloor or the ring holds fewer than 10 samples; after an
\* append noiseFloor is the median of the ring (element floor(n / 2) of the
\* sorted ring), whatever the RMS, 0 included; otherwise the ring and
\* noiseFloor are unchanged.
NoiseFloorIsMedian ==
    [][("detect" \in ev' /\ obs'.result.ok) =>
          IF obs'.window.rms < 3 * eng.noiseFloor \/ Len(eng.noiseFloorSamples) < 10
          THEN /\ eng'.noiseFloorSamples = Appended(eng.noiseFloorSamples, obs'.window.rms)
               /\ eng'.noiseFloor =
                      SortAsc(eng'.noiseFloorSamples)[(Len(eng'.noiseFloorSamples) \div 2) + 1]
          ELSE /\ eng'.noiseFloorSamples = eng.noiseFloorSamples
               /\ eng'.noiseFloor = eng.noiseFloor]_vars

\* the history h after x was appended
Pushed(h, x) ==
    IF Len(h) < 5 THEN Append(h, x) ELSE Append(SubSeq(h, 2, Len(h)), x)

\* C29: noteHistory and frequencyHistory have the same length, at most 5, and
\* noiseFloorSamples at most 50; a detectPitch call that returns a frame
\* appends one entry to each history (the oldest is evicted when full) and
\* at most one sample to the ring.
HistoriesBounded ==
    [][/\ Len(eng'.noteHistory) = Len(eng'.frequencyHistory)
       /\ Len(eng'.noteHistory) <= 5
       /\ Len(eng'.noiseFloorSamples) <= 50
       /\ ("detect" \in ev' /\ obs'.result.ok) =>
             /\ \E n \in NoteNames \cup {""} :
                   eng'.noteHistory = Pushed(eng.noteHistory, n)
             /\ eng'.frequencyHistory =
                   Pushed(eng.frequencyHistory, obs'.window.frequency)
             /\ \/ eng'.noiseFloorSamples = eng.noiseFloorSamples
                \/ eng'.noiseFloorSamples =
                       Appended(eng.noiseFloorSamples, obs'.window.rms)]_vars

\* a frame arrived with both histories and the ring full, and a sample was
\* evicted from each
FullRingEvicted ==
    /\ Returned
    /\ obs.frames > NOISE_FLOOR_WINDOW
    /\ Len(eng.noiseFloorSamples) = NOISE_FLOOR_WINDOW
    /\ eng.noiseFloorSamples[NOISE_FLOOR_WINDOW] = 0
    /\ Len(eng.noteHistory) = HISTORY_SIZE

\* f is at most 50 cents from the table frequency of note n, and strictly
\* fewer cents from that of n than from that of m (the ratios are compared)
Within50Cents(f, n) ==
    Max(f, LyreFreq[n]) * 100000 <= Min(f, LyreFreq[n]) * 102930
FewerCents(f, n, m) ==
    Max(f, LyreFreq[n]) * Min(f, LyreFreq[m]) < Max(f, LyreFreq[m]) * Min(f, LyreFreq[n])

\* C27: frequencyToLyreNote returns the lyre note fewest cents away (the
\* lower one on a tie) when that distance is at most 50 cents, and the empty
\* string when it is more or the frequency is outside [165, 1100] Hz; the
\* table frequency of every lyre note classifies as that note.
NearestLyreNote ==
    obs.classified =>
        /\ obs.note # "" =>
              /\ obs.note \in LyreSet
              /\ obs.frequency >= 1650 /\ obs.frequency <= 11000
              /\ Within50Cents(obs.frequency, obs.note)
              /\ \A m \in LyreSet :
                    /\ ~FewerCents(obs.frequency, m, obs.note)
                    /\ (~FewerCents(obs.frequency, obs.note, m) =>
                           LyreFreq[obs.note] <= LyreFreq[m])
        /\ obs.note = "" =>
              \/ obs.frequency < 1650 \/ obs.frequency > 11000
              \/ \A m \in LyreSet : ~Within50Cents(obs.frequency, m)
        /\ \A m \in LyreSet : obs.frequency = LyreFreq[m] => obs.note = m

\* 339.3 Hz, nearer to E4 in Hz and to F4 in cents, was classified as F4
ClassifiedByCents ==
    /\ obs.classified
    /\ obs.frequency = 3393
    /\ obs.note = "F4"

\* C30: once stop() has returned and no start() call is pending, no stream
\* this engine obtained has a live track and no context it created is open.
StopReleasesCapture ==
    (calls = <<>> /\ eng.ctx = "none") => (~eng.stream /\ ~eng.orphan)

\* the player stopped or paused in this step (stopListening outside checkPitch)
UserStop == "stop" \in ev' /\ "checkPitch" \notin ev'

\* C31: a stop or pause by the player leaves the tutor not listening, clears
\* holdStart and the progress, and leaves currentIndex, isFinished,
\* requireSilence and the debounce timestamp alone; the start that follows
\* (not a restart) resumes at the same index.
PauseKeepsPosition ==
    [][/\ UserStop =>
             /\ ~ui'.isListening /\ ~ref'.isListening /\ ~eng'.isListening
             /\ ref'.holdStartTime = 0 /\ ui'.noteProgress = 0
             /\ ui'.currentIndex = ui.currentIndex
             /\ ui'.isFinished = ui.isFinished
             /\ ref'.requireSilence = ref.requireSilence
             /\ ref'.lastNoteTime = ref.lastNoteTime
       /\ ("started" \in ev' /\ "restart" \notin ev') =>
             /\ ui'.currentIndex = ui.currentIndex
             /\ ref'.currentIndex = ui.currentIndex]_vars

\* the player paused on the second of two equal notes while silence was
\* still required
PausedMidSong ==
    /\ "stop" \in ev /\ "checkPitch" \notin ev
    /\ ui.currentIndex = 1
    /\ ref.requireSilence
    /\ ~ui.isListening

\* C32: outside a restart currentIndex changes only by +1 and only in a step
\* that accepts an advance, and an advance or the finish is accepted only on
\* a frame that detected the target on display, also when the frame ran
\* before the effect had synced currentIndexRef.
IndexStepsByOne ==
    [][("restart" \notin ev') =>
          /\ ui'.currentIndex =
                 IF "advanced" \in ev' THEN ui.currentIndex + 1 ELSE ui.currentIndex
          /\ Accepted =>
                 /\ ui.currentIndex + 1 \in DOMAIN song
                 /\ FrameNote = {song[ui.currentIndex + 1]}]_vars

\* a frame ran on the stale currentIndexRef right after an advance and the
\* index stayed where the advance had put it
StaleFrameAfterAdvance ==
    /\ "checkPitch" \in ev
    /\ "advanced" \notin ev
    /\ ui.currentIndex = 1
    /\ ref.currentIndex = 0
    /\ ref.holdStartTime # 0

\* C33: every preset song can be completed: whichever target the lesson of a
\* preset song has on display, a frame that hears the string of that note
\* clearly is classified as that note (so that holding it advances the lesson
\* up to Finished).
PresetTargetsDetectable ==
    (ui.currentIndex + 1 \in DOMAIN song /\ ~ui.isFinished) =>
        RawNoteOf(song[ui.currentIndex + 1]) = song[ui.currentIndex + 1]

\* C34: while a calibration phase (noise or note) is active the tutor never
\* advances: no step that starts in a calibration phase changes currentIndex or
\* isFinished or accepts a hold, whatever is heard and however long it is held.
NoAdvanceWhileCalibrating ==
    [][(ui.isCalibrating \/ ui.calibrationPhase # "idle") =>
          /\ ui'.currentIndex = ui.currentIndex
          /\ ui'.isFinished = ui.isFinished
          /\ ~Accepted]_vars

\* a frame heard the target during a calibration phase, a hold duration into
\* the session, and started no hold
TargetHeardWhileCalibrating ==
    /\ ui.isCalibrating
    /\ "checkPitch" \in ev
    /\ song[ui.currentIndex + 1] \in ev
    /\ ref.holdStartTime = 0
    /\ now >= T0 + (CHOOSE h \in HoldDurations : TRUE)

\* the raw notes in the history h that are the note x
Occurrences(h, x) == Cardinality({i \in DOMAIN h : h[i] = x})
\* the last n raw notes of the history h are all empty
EndsEmpty(h, n) == Len(h) >= n /\ \A i \in (Len(h) - n + 1)..Len(h) : h[i] = ""

\* C35: the smoother's latency.  After a frame: if the last 3 raw notes are
\* empty the stable note returned is empty; a stable note returned occurs at
\* least 3 times among the (at most 5) raw notes of the history; and once a
\* note has 4 raw frames in the history, a single empty raw frame, and the
\* matching frame after it, still return that note.
SmootherLatency ==
    [][Returned' =>
          LET h      == eng.noteHistory
              h2     == eng'.noteHistory
              raw    == h2[Len(h2)]
              stable == obs'.result.note
          IN  /\ Len(h2) <= HISTORY_SIZE
              /\ EndsEmpty(h2, REQUIRED_CONSISTENCY) => stable = ""
              /\ stable # "" => Occurrences(h2, stable) >= REQUIRED_CONSISTENCY
              /\ (\A x \in SmootherNotes \ {""} :
                     Occurrences(h2, x) < REQUIRED_CONSISTENCY) => stable = ""
              /\ \A x \in SmootherNotes \ {""} :
                    /\ (Occurrences(h, x) >= 4 /\ raw = "") => stable = x
                    /\ (/\ Len(h) >= 2 /\ h[Len(h)] = "" /\ h[Len(h) - 1] = x
                        /\ Occurrences(h, x) >= REQUIRED_CONSISTENCY
                        /\ raw = x) => stable = x]_vars

\* after four matching frames and one empty frame the note is still returned
SingleGapBridged ==
    /\ "detect" \in ev /\ obs.result.ok
    /\ eng.noteHistory = <<"A4", "A4", "A4", "", "A4">>
    /\ obs.result.note = "A4"

\* C36: requireSilence is true only when the tutor is not finished,
\* currentIndex > 0, and the target on display equals both the target before
\* it and lastCompletedNote.
SilenceOnlyBetweenDuplicates ==
    ref.requireSilence =>
        /\ ~ui.isFinished
        /\ ui.currentIndex > 0
        /\ ui.currentIndex + 1 \in DOMAIN song
        /\ song[ui.currentIndex + 1] = song[ui.currentIndex]
        /\ song[ui.currentIndex + 1] = ref.lastCompletedNote

\* the tutor waits for silence before the second of two equal notes
WaitingBetweenDuplicates ==
    /\ ref.requireSilence
    /\ "advanced" \in ev
    /\ ui.currentIndex = 1
    /\ song[1] = song[2]

\* C37: after every successful start of the engine (the first, one after a
\* stop, one after Finished) the gain in the signal path equals config.gain,
\* for every configured gain from 0.5 to 5.0, with no further change of the
\* configuration.
StartAppliesGain ==
    ("started" \in ev /\ ui.config.gain \in MinGain..MaxGain) =>
        eng.gain = ui.config.gain

====
